---- MODULE Spec2Model ----
(***************************************************************************)
(* Model of the OLS regression engine of the statistical-analysis          *)
(* extension: performLinearRegression and the helpers it calls             *)
(* (multipleLinearRegression, gaussianElimination, invertMatrix,           *)
(* getCriticalTValue, calculatePValue), of createDummyVariables, of         *)
(* RegressionHistoryService, of the commands that keep                     *)
(* LinearRegressionProvider and ModelConfigProvider, and of parseCSV.      *)
(*                                                                         *)
(* Specifications: Spec (one fit), CriticalSpec (getCriticalTValue),       *)
(* EncoderSpec (createDummyVariables), PairSpec (fits in flight together), *)
(* HistorySpec (the history service), CommandSpec (the commands),          *)
(* SolverSpec (gaussianElimination and invertMatrix on their own),         *)
(* ParserSpec (parseCSV).  The variables of the parts a specification      *)
(* does not run stay idle.                                                 *)
(*                                                                         *)
(* Strings are sequences of one-character strings, so that trim(),         *)
(* parseFloat() and the template `${col}_${cat}` are computed, not         *)
(* assumed.  Numbers are exact rationals [n, d] in lowest terms with       *)
(* d > 0; the two non-numbers of JavaScript that the engine can produce    *)
(* are encoded with d = 0: NaN and undefined.                              *)
(***************************************************************************)
EXTENDS Integers, Sequences, FiniteSets, TLC

VARIABLES
    table,          \* rows: string[][] as returned by parseCSV (row 1 = header)
    xColumns,       \* argument xColumns: string[]
    yColumn,        \* argument yColumn: string
    dummyVariables, \* argument dummyVariables, as its key order:
                    \*   sequence of [col |-> name, cats |-> Object.keys(...)]
    pc,             \* position inside performLinearRegression
    headers,        \* rows[0].map(h => h.trim())
    actualCsvColumns,
    dummyColumnNames,
    dummySourceIndices, \* per declared source: header index, 0 = unresolved
    regressionData, \* number[][]: one row per retained data row
    yValues,        \* number[]
    keptRows,       \* data-row number i of the loop for each retained row
    regression,     \* const regression = multipleLinearRegression(..)
    result,         \* the resolved RegressionResult, NoResult before/without
    error,          \* the rejection: "none" or the kind of error thrown
    criticalDf,     \* argument df of a call of getCriticalTValue on its own
    criticalT,      \* the value that call returned, NoResult before
    csvRows,        \* rows a call of createDummyVariables parsed from its file
    categoricalColumn,  \* its argument categoricalColumn
    baseCaseCategory,   \* its argument baseCaseCategory
    dummies,        \* what the call settled with, NoResult before
    invocations,    \* calls of performLinearRegression in flight together:
                    \*   per call its arguments and the locals of its callback
    history,        \* RegressionHistoryService.history, newest entry first
    entriesAdded,   \* addEntry calls so far; entry n stands for the n-th id
    lastEntry,      \* what the latest getLastEntry returned, NoResult before
    arrays,         \* the string[] objects the providers and the history hold
    provider,       \* the fields of LinearRegressionProvider
    modelConfigProvider,    \* the fields of ModelConfigProvider
    running,        \* what a runRegressionLogic awaiting its fit captured
    panel,          \* what RegressionResultsPanel.showResults rendered last
    fits,           \* per history entry number: what the fit of that run
                    \*   returned and the design matrix it was computed from
    commandsRun,    \* commands issued so far
    unit,           \* a linear system on its own: its numbers are held as
                    \*   multiples of 10^-unit
    matrixA,        \* the array A handed to gaussianElimination / invertMatrix
    vectorB,        \* the array b handed to gaussianElimination
    solution,       \* [x |-> what gaussianElimination returned], NoResult before
    inverse,        \* what invertMatrix returned, NoResult before
    sourceTable,    \* the cells a CSV text was written from
    content,        \* the text handed to parseCSV
    parsedRows      \* what parseCSV returned, NoResult before

inputVars == <<table, xColumns, yColumn, dummyVariables>>
fitVars == <<pc, headers, actualCsvColumns, dummyColumnNames, dummySourceIndices,
             regressionData, yValues, keptRows, regression, result, error>>
criticalVars == <<criticalDf, criticalT>>
encoderVars == <<csvRows, categoricalColumn, baseCaseCategory, dummies>>
\* what a call of performLinearRegression leaves alone
historyVars == <<history, entriesAdded, lastEntry>>
commandVars == <<arrays, provider, modelConfigProvider, running, panel, fits,
                 commandsRun>>
solverVars == <<unit, matrixA, vectorB, solution, inverse>>
parserVars == <<sourceTable, content, parsedRows>>
outsideFit == <<criticalVars, encoderVars, invocations, historyVars, commandVars,
               solverVars, parserVars>>
vars == <<inputVars, fitVars, outsideFit>>

(***************************************************************************)
(* Numbers                                                                 *)
(***************************************************************************)
Abs(x) == IF x < 0 THEN -x ELSE x

RECURSIVE Gcd(_, _)
Gcd(a, b) == IF b = 0 THEN a ELSE Gcd(b, a % b)

\* n/d in lowest terms, d > 0
Rat(n, d) ==
    LET s == IF d < 0 THEN -1 ELSE 1
        g == Gcd(Abs(n), Abs(d))
    IN  [n |-> (s * n) \div g, d |-> (s * d) \div g]

Int2Rat(k) == [n |-> k, d |-> 1]
Zero == [n |-> 0, d |-> 1]
One == [n |-> 1, d |-> 1]

NaN == [n |-> 0, d |-> 0]
Undefined == [n |-> 1, d |-> 0]
IsNaN(x) == x.d = 0            \* isNaN(undefined) is true as well
IsNumber(x) == x.d > 0

\* a + b, a - b, a * b, a / b on numbers; a non-number operand gives NaN
RAdd(a, b) == IF IsNaN(a) \/ IsNaN(b) THEN NaN
              ELSE LET g == Gcd(a.d, b.d)
                   IN  Rat(a.n * (b.d \div g) + b.n * (a.d \div g), (a.d \div g) * b.d)
RNeg(a) == IF IsNaN(a) THEN NaN ELSE [n |-> -a.n, d |-> a.d]
RSub(a, b) == RAdd(a, RNeg(b))
RMul(a, b) == IF IsNaN(a) \/ IsNaN(b) THEN NaN
              ELSE LET g1 == Gcd(Abs(a.n), b.d)
                       g2 == Gcd(Abs(b.n), a.d)
                   IN  [n |-> (a.n \div g1) * (b.n \div g2),
                        d |-> (a.d \div g2) * (b.d \div g1)]
\* callers guard b # 0, as the code does before every division
RDiv(a, b) == IF IsNaN(a) \/ IsNaN(b) THEN NaN
              ELSE RMul(a, Rat(b.d, b.n))
RAbs(a) == IF IsNaN(a) THEN NaN ELSE [n |-> Abs(a.n), d |-> a.d]
\* a < b, a > b: FALSE when an operand is a non-number
RLt(a, b) == /\ IsNumber(a) /\ IsNumber(b)
             /\ LET g == Gcd(a.d, b.d)
                IN  a.n * (b.d \div g) < b.n * (a.d \div g)
RGt(a, b) == RLt(b, a)

\* Math.abs(a) < 1e-10, decided exactly on n/d:  |n| * 10^10 < d
TinyScale == 100000
BelowEpsilon(a) ==
    /\ IsNumber(a)
    /\ \/ a.n = 0
       \/ /\ Abs(a.n) <= 20000
          /\ Abs(a.n) * TinyScale <= (a.d - 1) \div TinyScale

(***************************************************************************)
(* Strings                                                                 *)
(***************************************************************************)
Digits == {"0", "1", "2", "3", "4", "5", "6", "7", "8", "9"}
DigitVal(c) == CHOOSE k \in 0..9 : c = ToString(k)

\* a cell position beyond the end of a row reads as undefined; String(undefined)
\* is no string a file can hold
Missing == <<"undefined">>

RECURSIVE TrimStart(_)
TrimStart(s) == IF Len(s) > 0 /\ Head(s) = " " THEN TrimStart(Tail(s)) ELSE s

RECURSIVE TrimEnd(_)
TrimEnd(s) == IF Len(s) > 0 /\ s[Len(s)] = " "
              THEN TrimEnd(SubSeq(s, 1, Len(s) - 1)) ELSE s

\* String.prototype.trim
Trim(s) == TrimEnd(TrimStart(s))

RECURSIVE DigitPrefix(_)
DigitPrefix(s) == IF Len(s) > 0 /\ Head(s) \in Digits
                  THEN <<Head(s)>> \o DigitPrefix(Tail(s)) ELSE <<>>

RECURSIVE DigitsValue(_, _)
DigitsValue(ds, acc) == IF ds = <<>> THEN acc
                        ELSE DigitsValue(Tail(ds), 10 * acc + DigitVal(Head(ds)))

RECURSIVE Pow10(_)
Pow10(k) == IF k = 0 THEN 1 ELSE 10 * Pow10(k - 1)

\* parseFloat: leading white space skipped, optional sign, the longest
\* decimal prefix; NaN when there is none.  (Exponents and "Infinity" are
\* not in the cell alphabet of this model.)
ParseFloat(v) ==
    LET t == TrimStart(v)
        signed == Len(t) > 0 /\ Head(t) \in {"-", "+"}
        sgn == IF Len(t) > 0 /\ Head(t) = "-" THEN -1 ELSE 1
        u == IF signed THEN Tail(t) ELSE t
        ip == DigitPrefix(u)
        rest == SubSeq(u, Len(ip) + 1, Len(u))
        fp == IF Len(rest) > 0 /\ Head(rest) = "." THEN DigitPrefix(Tail(rest))
              ELSE <<>>
    IN  IF ip = <<>> /\ fp = <<>> THEN NaN
        ELSE Rat(sgn * (DigitsValue(ip, 0) * Pow10(Len(fp)) + DigitsValue(fp, 0)),
                 Pow10(Len(fp)))

\* Array.prototype.indexOf, 1-based; 0 stands for -1
RECURSIVE IndexFrom(_, _, _)
IndexFrom(s, x, k) == IF k > Len(s) THEN 0
                      ELSE IF s[k] = x THEN k ELSE IndexFrom(s, x, k + 1)
IndexOf(s, x) == IndexFrom(s, x, 1)
Includes(s, x) == IndexOf(s, x) # 0

\* values[idx] of a row that may be shorter than the header
CellAt(values, idx) == IF idx >= 1 /\ idx <= Len(values) THEN values[idx] ELSE Missing

\* the template literal `${colName}_${category}`
DummyName(colName, category) == colName \o <<"_">> \o category

(***************************************************************************)
(* Linear algebra: matrices are sequences of rows of numbers               *)
(***************************************************************************)
RECURSIVE SumTo(_, _)
\* sum += f[k] for k = 1..n, in loop order
SumTo(f, n) == IF n = 0 THEN Zero ELSE RAdd(SumTo(f, n - 1), f[n])

\* the n values of a loop stored as an array, and as an array of arrays
Array(f) == f \o <<>>
Matrix(M) == Array([i \in 1..Len(M) |-> Array(M[i])])

SwapRows(A, i, j) ==
    Array([k \in 1..Len(A) |-> IF k = i THEN A[j] ELSE IF k = j THEN A[i] ELSE A[k]])

\* the pivot search shared by gaussianElimination and invertMatrix:
\* the first row at or below i with the largest |A[k][i]|
RECURSIVE FindPivot(_, _, _, _)
FindPivot(A, i, k, maxRow) ==
    IF k > Len(A) THEN maxRow
    ELSE FindPivot(A, i, k + 1,
                   IF RGt(RAbs(A[k][i]), RAbs(A[maxRow][i])) THEN k ELSE maxRow)

\* a forward-elimination pass whose row swap forgets the right-hand side
ForwardStepKeepsB(Ab, i) ==
    LET n == Len(Ab.A)
        maxRow == FindPivot(Ab.A, i, i + 1, i)
        A1 == SwapRows(Ab.A, i, maxRow)
        b1 == Ab.b
        factor(k) == RDiv(A1[k][i], A1[i][i])
    IN  IF A1[i][i] = Zero THEN [A |-> A1, b |-> b1]
        ELSE [A |-> [k \in 1..n |->
                        IF k > i
                        THEN [j \in 1..n |->
                                IF j >= i
                                THEN RSub(A1[k][j], RMul(factor(k), A1[i][j]))
                                ELSE A1[k][j]]
                        ELSE A1[k]],
              b |-> [k \in 1..n |->
                        IF k > i THEN RSub(b1[k], RMul(factor(k), b1[i]))
                        ELSE b1[k]]]

\* one pass of the forward-elimination loop for column i
ForwardStep(Ab, i) ==
    LET n == Len(Ab.A)
        maxRow == FindPivot(Ab.A, i, i + 1, i)
        A1 == SwapRows(Ab.A, i, maxRow)
        b1 == SwapRows(Ab.b, i, maxRow)
        factor(k) == RDiv(A1[k][i], A1[i][i])
    IN  IF A1[i][i] = Zero THEN [A |-> A1, b |-> b1]
        ELSE [A |-> Matrix([k \in 1..n |->
                        IF k > i
                        THEN [j \in 1..n |->
                                IF j >= i
                                THEN RSub(A1[k][j], RMul(factor(k), A1[i][j]))
                                ELSE A1[k][j]]
                        ELSE A1[k]]),
              b |-> Array([k \in 1..n |->
                        IF k > i THEN RSub(b1[k], RMul(factor(k), b1[i]))
                        ELSE b1[k]])]

RECURSIVE ForwardElimination(_, _)
ForwardElimination(Ab, i) ==
    IF i > Len(Ab.A) THEN Ab ELSE ForwardElimination(ForwardStep(Ab, i), i + 1)

\* A system whose numbers are far below 1 is held as the multiples its
\* numbers are of 10^-e (e = 0: the numbers themselves).  Sums, quotients and
\* comparisons of two such numbers are those of the multiples; only the
\* comparison with the constant 1e-10 depends on e:
\* Math.abs(a * 10^-e) < 1e-10  iff  |a| < 10^(e - 10)
BelowEpsilonScaled(a, e) ==
    IF e = 0 THEN BelowEpsilon(a) ELSE RLt(RAbs(a), Int2Rat(Pow10(e - 10)))

\* a back substitution that divides by every pivot
RECURSIVE BackSubstitutionDivides(_, _, _, _)
BackSubstitutionDivides(Ab, i, xs, e) ==
    IF i = 0 THEN xs
    ELSE LET n == Len(Ab.A)
             rest == SumTo([j \in 1..(n - i) |-> RMul(Ab.A[i][i + j], xs[j])], n - i)
             xi == RDiv(RSub(Ab.b[i], rest), Ab.A[i][i])
         IN  BackSubstitutionDivides(Ab, i - 1, <<xi>> \o xs, e)

\* back substitution from row i upward; xs holds x[i+1..n] already
RECURSIVE BackSubstitutionScaled(_, _, _, _)
BackSubstitutionScaled(Ab, i, xs, e) ==
    IF i = 0 THEN xs
    ELSE LET n == Len(Ab.A)
             rest == SumTo([j \in 1..(n - i) |-> RMul(Ab.A[i][i + j], xs[j])], n - i)
             xi == IF BelowEpsilonScaled(Ab.A[i][i], e) THEN Zero
                   ELSE RDiv(RSub(Ab.b[i], rest), Ab.A[i][i])
         IN  BackSubstitutionScaled(Ab, i - 1, <<xi>> \o xs, e)

\* gaussianElimination of a system held as multiples of 10^-e: the arrays A
\* and b as the call leaves them, and the returned x
gaussianEliminationScaled(A, b, e) ==
    LET done == ForwardElimination([A |-> A, b |-> b], 1)
    IN  [A |-> done.A, b |-> done.b,
         x |-> BackSubstitutionScaled(done, Len(A), <<>>, e)]

gaussianElimination(A, b) == gaussianEliminationScaled(A, b, 0).x

\* designMatrix[i] = [1, ...X[i]]
designMatrix(X) == [i \in 1..Len(X) |-> <<One>> \o X[i]]

\* X^T X of a matrix with `cols` columns
GramMatrix(D, cols) ==
    Matrix([i \in 1..cols |-> [j \in 1..cols |->
        SumTo([k \in 1..Len(D) |-> RMul(D[k][i], D[k][j])], Len(D))]])

\* X^T y
GramVector(D, y, cols) ==
    Array([i \in 1..cols |-> SumTo([k \in 1..Len(D) |-> RMul(D[k][i], y[k])], Len(D))])

multipleLinearRegression(X, y) ==
    LET p == Len(X[1])
        D == designMatrix(X)
        beta == gaussianElimination(GramMatrix(D, p + 1), GramVector(D, y, p + 1))
    IN  [intercept |-> beta[1], slopes |-> SubSeq(beta, 2, p + 1)]

\* a Gauss-Jordan pass that clears column i below the pivot row only
InvertStepBelowOnly(aug, i, e) ==
    LET n == Len(aug)
        maxRow == FindPivot(aug, i, i + 1, i)
        a1 == SwapRows(aug, i, maxRow)
        pivot == a1[i][i]
        scaled == Array([j \in 1..(2 * n) |-> RDiv(a1[i][j], pivot)])
    IN  IF BelowEpsilonScaled(pivot, e) THEN a1
        ELSE Matrix([k \in 1..n |->
                IF k = i THEN scaled
                ELSE IF k < i THEN a1[k]
                ELSE [j \in 1..(2 * n) |->
                        RSub(a1[k][j], RMul(a1[k][i], scaled[j]))]])

\* one pass of the Gauss-Jordan loop of invertMatrix on the augmented matrix
\* [A | I] of a matrix held as multiples of 10^-e.  A row that has not been
\* divided by its pivot holds multiples of 10^-e on the left and plain
\* numbers on the right; a divided row holds plain numbers on the left and
\* multiples of 10^e on the right, and every step keeps that form, so the
\* multiples are computed as the code computes the numbers.
InvertStep(aug, i, e) ==
    LET n == Len(aug)
        maxRow == FindPivot(aug, i, i + 1, i)
        a1 == SwapRows(aug, i, maxRow)
        pivot == a1[i][i]
        scaled == Array([j \in 1..(2 * n) |-> RDiv(a1[i][j], pivot)])
    IN  IF BelowEpsilonScaled(pivot, e) THEN a1
        ELSE Matrix([k \in 1..n |->
                IF k = i THEN scaled
                ELSE [j \in 1..(2 * n) |->
                        RSub(a1[k][j], RMul(a1[k][i], scaled[j]))]])

\* the loop; st.aug is the augmented matrix and st.exp[k] the power of ten
\* the right half of row k is held in multiples of: e once the row has been
\* divided by its pivot, 0 before and when it was skipped
RECURSIVE InvertLoop(_, _, _)
InvertLoop(st, i, e) ==
    IF i > Len(st.aug) THEN st
    ELSE LET a1 == SwapRows(st.aug, i, FindPivot(st.aug, i, i + 1, i))
         IN  InvertLoop([aug |-> InvertStep(st.aug, i, e),
                         exp |-> Array([k \in 1..Len(st.aug) |->
                                    IF k = i /\ ~BelowEpsilonScaled(a1[i][i], e)
                                    THEN e ELSE st.exp[k]])],
                        i + 1, e)

\* invertMatrix of a matrix held as multiples of 10^-e: row k of the returned
\* matrix is B[k] times 10^exp[k]
invertMatrixScaled(A, e) ==
    LET n == Len(A)
        augmented == [i \in 1..n |->
                        A[i] \o [j \in 1..n |-> IF i = j THEN One ELSE Zero]]
        done == InvertLoop([aug |-> Matrix(augmented), exp |-> [k \in 1..n |-> 0]], 1, e)
    IN  [B |-> Matrix([i \in 1..n |-> SubSeq(done.aug[i], n + 1, 2 * n)]),
         exp |-> done.exp]

invertMatrix(A) == invertMatrixScaled(A, 0).B

\* the order of Array.prototype.sort() without a comparator: by UTF-16 code
\* units, character by character (the characters the tables use)
Alphabet == <<" ", "0", "1", "2", "3", "4", "5", "6", "7", "8", "9",
             "A", "B", "C", "x">>
Rank(ch) == CHOOSE r \in 1..Len(Alphabet) : Alphabet[r] = ch
RECURSIVE LexLess(_, _)
LexLess(u, v) ==
    IF v = <<>> THEN FALSE
    ELSE IF u = <<>> THEN TRUE
    ELSE IF Head(u) = Head(v) THEN LexLess(Tail(u), Tail(v))
    ELSE Rank(Head(u)) < Rank(Head(v))

RECURSIVE SortStrings(_)
SortStrings(S) ==
    IF S = {} THEN <<>>
    ELSE LET least == CHOOSE u \in S : \A v \in S \ {u} : LexLess(u, v)
         IN  <<least>> \o SortStrings(S \ {least})

(***************************************************************************)
(* performLinearRegression, stage 1: header and column resolution          *)
(***************************************************************************)
\* rows[0].map(h => h.trim())
TrimAll(row) == [k \in 1..Len(row) |-> Trim(row[k])]

\* xColumns.filter(col => headers.includes(col))
RECURSIVE FilterIncluded(_, _)
FilterIncluded(cols, hdr) ==
    IF cols = <<>> THEN <<>>
    ELSE (IF Includes(hdr, Head(cols)) THEN <<Head(cols)>> ELSE <<>>)
         \o FilterIncluded(Tail(cols), hdr)

\* the names pushed for one source: categories[1..] (0-based), the first
\* key being the reference
SourceDummyNamesAll(dv) ==
    [k \in 1..Len(dv.cats) |-> DummyName(dv.col, dv.cats[k])]

SourceDummyNames(dv) ==
    [k \in 1..(Len(dv.cats) - 1) |-> DummyName(dv.col, dv.cats[k + 1])]

\* names collected with every later source put in front of the earlier ones
RECURSIVE DummyColumnNamesLastFirst(_)
DummyColumnNamesLastFirst(dvs) ==
    IF dvs = <<>> THEN <<>>
    ELSE DummyColumnNamesLastFirst(Tail(dvs))
         \o (IF Len(Head(dvs).cats) > 1 THEN SourceDummyNames(Head(dvs)) ELSE <<>>)

\* dummyColumnNames after the loop over the sources in key order
RECURSIVE DummyColumnNames(_)
DummyColumnNames(dvs) ==
    IF dvs = <<>> THEN <<>>
    ELSE (IF Len(Head(dvs).cats) > 1 THEN SourceDummyNames(Head(dvs)) ELSE <<>>)
         \o DummyColumnNames(Tail(dvs))

\* dummySourceIndices: headers.indexOf(colName) per source, 0 when the
\* source is only warned about and left unresolved
DummySourceIndices(dvs, hdr) == [k \in 1..Len(dvs) |-> IndexOf(hdr, dvs[k].col)]

(***************************************************************************)
(* stage 2: the row loop                                                   *)
(***************************************************************************)
\* parseFloat(values[xIdx]) for every raw X column of one row
RawValues(values, cols, hdr) ==
    [k \in 1..Len(cols) |-> ParseFloat(CellAt(values, IndexOf(hdr, cols[k])))]

\* the 0/1 values pushed for one source on one row
SourceIndicators(values, dv, sourceIdx) ==
    IF sourceIdx = 0 \/ Len(dv.cats) < 2 THEN <<>>
    ELSE [k \in 1..(Len(dv.cats) - 1) |->
            IF CellAt(values, sourceIdx) = dv.cats[k + 1] THEN One ELSE Zero]

RECURSIVE RowIndicators(_, _, _, _)
RowIndicators(values, dvs, idxs, k) ==
    IF k > Len(dvs) THEN <<>>
    ELSE SourceIndicators(values, dvs[k], idxs[k])
         \o RowIndicators(values, dvs, idxs, k + 1)

\* does row i (1-based data row) survive, and with which dataRow
RowY(rows, i, hdr, yCol) == ParseFloat(CellAt(TrimAll(rows[i + 1]), IndexOf(hdr, yCol)))

\* a row test that looks at the Y cell only
RowKeptOnY(rows, i, hdr, yCol, cols) == ~IsNaN(RowY(rows, i, hdr, yCol))

RowKept(rows, i, hdr, yCol, cols) ==
    LET values == TrimAll(rows[i + 1])
        raw == RawValues(values, cols, hdr)
    IN  /\ ~IsNaN(RowY(rows, i, hdr, yCol))
        /\ \A k \in 1..Len(cols) : ~IsNaN(raw[k])

\* a data row whose indicators are read one line above the row's own line
DataRowIndicatorsLineAbove(rows, i, hdr, cols, dvs, idxs) ==
    RawValues(TrimAll(rows[i + 1]), cols, hdr)
        \o RowIndicators(TrimAll(rows[i]), dvs, idxs, 1)

DataRow(rows, i, hdr, cols, dvs, idxs) ==
    LET values == TrimAll(rows[i + 1])
    IN  RawValues(values, cols, hdr) \o RowIndicators(values, dvs, idxs, 1)

\* the data-row numbers pushed by the loop for i = from .. rows.length - 1
RECURSIVE KeptRows(_, _, _, _, _)
KeptRows(rows, from, hdr, yCol, cols) ==
    IF from > Len(rows) - 1 THEN <<>>
    ELSE (IF RowKept(rows, from, hdr, yCol, cols) THEN <<from>> ELSE <<>>)
         \o KeptRows(rows, from + 1, hdr, yCol, cols)

(***************************************************************************)
(* Square roots and the t distribution, kept symbolic                      *)
(*                                                                         *)
(* A surd [a, b, r] stands for a + b * sqrt(r) with r > 0, or for the      *)
(* number a when b = 0.  A tail [c0, c1, a, x] stands for                  *)
(* c0 + c1 * I_x(a, 1/2), the value the continued fraction of              *)
(* regularizedIncompleteBeta returns, or for the number c0 when c1 = 0.    *)
(***************************************************************************)
SNum(v) == [a |-> v, b |-> Zero, r |-> Zero]
SNaN == SNum(NaN)
SIsNaN(s) == IsNaN(s.a) \/ IsNaN(s.b)

\* Math.sqrt
SSqrt(v) == IF ~IsNumber(v) \/ v.n < 0 THEN SNaN
            ELSE IF v.n = 0 THEN SNum(Zero)
            ELSE [a |-> Zero, b |-> One, r |-> v]

\* se > 0 for se = Math.sqrt(..)
SqrtPositive(se) == ~SIsNaN(se) /\ se.b.n > 0

\* coef / se for se > 0
DivBySqrt(coef, se) ==
    IF IsNaN(coef) THEN SNaN
    ELSE IF coef.n = 0 THEN SNum(Zero)
    ELSE [a |-> Zero, b |-> RDiv(coef, se.r), r |-> se.r]

\* coef + k * se
AddScaledSqrt(coef, k, se) ==
    IF IsNaN(coef) \/ SIsNaN(se) THEN SNaN
    ELSE IF se.b.n = 0 THEN SNum(coef)
    ELSE [a |-> coef, b |-> RMul(k, se.b), r |-> se.r]

\* t * t for a t-statistic b * sqrt(r)
TSquared(t) == RMul(RMul(t.b, t.r), t.b)

TNum(v) == [c0 |-> v, c1 |-> Zero, a |-> Zero, x |-> Zero]
TIsNaN(t) == IsNaN(t.c0) \/ IsNaN(t.c1)

Half == [n |-> 1, d |-> 2]
Two == [n |-> 2, d |-> 1]

\* regularizedIncompleteBeta(a, 0.5, x): the early returns are exact, the
\* continued fraction is the symbolic I_x(a, 1/2)
regularizedIncompleteBeta(a, x) ==
    IF RLt(x, Zero) THEN TNum(Zero)
    ELSE IF RGt(x, One) THEN TNum(One)
    ELSE IF x = Zero THEN TNum(Zero)
    ELSE IF x = One THEN TNum(One)
    ELSE [c0 |-> Zero, c1 |-> One, a |-> a, x |-> x]

\* k0 + k1 * t for a tail t
TAffine(k0, k1, t) ==
    IF t.c1 = Zero THEN TNum(RAdd(k0, RMul(k1, t.c0)))
    ELSE [c0 |-> RAdd(k0, RMul(k1, t.c0)), c1 |-> RMul(k1, t.c1), a |-> t.a, x |-> t.x]

\* tDistributionCDF(t, df) for a t-statistic that is not NaN
tDistributionCDF(t, df) ==
    IF df <= 0 THEN TNum(Half)
    ELSE LET x == RDiv(Int2Rat(df), RAdd(Int2Rat(df), TSquared(t)))
             betaValue == regularizedIncompleteBeta(Rat(df, 2), x)
         IN  IF t.b.n >= 0
             THEN TAffine(One, RNeg(Half), betaValue)  \* 0.5 + 0.5 * (1 - betaValue)
             ELSE TAffine(Zero, Half, betaValue)       \* 0.5 * betaValue

\* Math.min(v, 1); a tail that is not a plain number is I_x(a, 1/2) itself
\* here, and is kept with the cap recorded by c0 = 0, c1 = 1
MinOne(t) == IF t.c1 = Zero THEN (IF RLt(One, t.c0) THEN TNum(One) ELSE t) ELSE t

\* a p-value that forgets to double the one-tailed probability
calculatePValueOneTailed(tStat, df) ==
    IF df <= 0 \/ SIsNaN(tStat) THEN TNum(One)
    ELSE LET cdf == tDistributionCDF(tStat, df)
         IN  MinOne(IF tStat.b.n >= 0 THEN TAffine(One, RNeg(One), cdf) ELSE cdf)

calculatePValue(tStat, df) ==
    IF df <= 0 \/ SIsNaN(tStat) THEN TNum(One)
    ELSE LET cdf == tDistributionCDF(tStat, df)
             oneTailed == IF tStat.b.n >= 0 THEN TAffine(One, RNeg(One), cdf) ELSE cdf
         IN  MinOne(TAffine(Zero, Two, oneTailed))

\* tCriticalTable, in thousandths
tCriticalTable ==
    [df \in {1, 2, 3, 4, 5, 6, 7, 8, 9, 10, 12, 15, 20, 25, 30, 40, 60, 100, 1000} |->
        Rat(CASE df = 1 -> 12706 [] df = 2 -> 4303 [] df = 3 -> 3182 [] df = 4 -> 2776
              [] df = 5 -> 2571 [] df = 6 -> 2447 [] df = 7 -> 2365 [] df = 8 -> 2306
              [] df = 9 -> 2262 [] df = 10 -> 2228 [] df = 12 -> 2179 [] df = 15 -> 2131
              [] df = 20 -> 2086 [] df = 25 -> 2060 [] df = 30 -> 2042 [] df = 40 -> 2021
              [] df = 60 -> 2000 [] df = 100 -> 1984 [] df = 1000 -> 1962, 1000)]

\* Object.keys(tCriticalTable).map(Number).sort(..)
dfValues == <<1, 2, 3, 4, 5, 6, 7, 8, 9, 10, 12, 15, 20, 25, 30, 40, 60, 100, 1000>>

\* a lookup that takes the entry below df instead of interpolating
getCriticalTValueEntryBelow(df) ==
    IF df \in DOMAIN tCriticalTable THEN tCriticalTable[df]
    ELSE IF df < dfValues[1] THEN tCriticalTable[dfValues[1]]
    ELSE IF df > dfValues[Len(dfValues)] THEN tCriticalTable[dfValues[Len(dfValues)]]
    ELSE LET i == CHOOSE k \in 1..(Len(dfValues) - 1) :
                    dfValues[k] <= df /\ df <= dfValues[k + 1]
         IN  tCriticalTable[dfValues[i]]

getCriticalTValue(df) ==
    IF df \in DOMAIN tCriticalTable THEN tCriticalTable[df]
    ELSE IF df < dfValues[1] THEN tCriticalTable[dfValues[1]]
    ELSE IF df > dfValues[Len(dfValues)] THEN tCriticalTable[dfValues[Len(dfValues)]]
    ELSE LET i == CHOOSE k \in 1..(Len(dfValues) - 1) :
                    /\ dfValues[k] <= df /\ df <= dfValues[k + 1]
                    /\ \A q \in 1..(k - 1) : ~(dfValues[q] <= df /\ df <= dfValues[q + 1])
             lower == dfValues[i]
             upper == dfValues[i + 1]
             ratio == Rat(df - lower, upper - lower)
         IN  RAdd(tCriticalTable[lower],
                  RMul(ratio, RSub(tCriticalTable[upper], tCriticalTable[lower])))

(***************************************************************************)
(* stage 3: coefficients, goodness of fit, coefficient statistics          *)
(***************************************************************************)
NameSet(cols) == {cols[i] : i \in 1..Len(cols)}

\* the object after  slopes[allXCols[i]] = regression.slopes[i]  for every i:
\* a later write to the same key wins, an index past the solver's vector
\* stores undefined
SlopesObject(cols, betaSlopes) ==
    [name \in NameSet(cols) |->
        LET last == CHOOSE i \in 1..Len(cols) :
                        cols[i] = name /\ \A j \in (i + 1)..Len(cols) : cols[j] # name
        IN  IF last <= Len(betaSlopes) THEN betaSlopes[last] ELSE Undefined]

\* a prediction that pairs every slope with the first value of the row
RECURSIVE PredictRowFirstValue(_, _, _, _, _)
PredictRowFirstValue(row, cols, slopes, intercept, k) ==
    IF k = 0 THEN intercept
    ELSE RAdd(PredictRowFirstValue(row, cols, slopes, intercept, k - 1),
              RMul(slopes[cols[k]], row[1]))

\* pred = intercept; pred += slopes[allXCols[i]] * row[i] for i < row.length
RECURSIVE PredictRow(_, _, _, _, _)
PredictRow(row, cols, slopes, intercept, k) ==
    IF k = 0 THEN intercept
    ELSE RAdd(PredictRow(row, cols, slopes, intercept, k - 1),
              RMul(slopes[cols[k]], row[k]))

Predictions(data, cols, slopes, intercept) ==
    [i \in 1..Len(data) |-> PredictRow(data[i], cols, slopes, intercept, Len(data[i]))]

Square(v) == RMul(v, v)

\* stats.mean
Mean(ys) == RDiv(SumTo(ys, Len(ys)), Int2Rat(Len(ys)))

SSTotal(ys) == SumTo([i \in 1..Len(ys) |-> Square(RSub(ys[i], Mean(ys)))], Len(ys))
SSResidual(ys, preds) ==
    SumTo([i \in 1..Len(ys) |-> Square(RSub(ys[i], preds[i]))], Len(ys))

\* an R-squared that reports the unexplained share SSR / SST
RSquaredOfUnexplained(ssTotal, ssResidual) ==
    IF ssTotal = Zero THEN Zero ELSE RDiv(ssResidual, ssTotal)

\* rSquared, after the NaN check
RSquaredOf(ssTotal, ssResidual) ==
    LET raw == IF ssTotal = Zero THEN Zero ELSE RSub(One, RDiv(ssResidual, ssTotal))
    IN  IF IsNaN(raw) THEN Zero ELSE raw

\* an adjustment with the ratio of the degrees of freedom turned over
AdjustedRSquaredOfInverted(rawR2, n, p) ==
    IF n > p + 1
    THEN RSub(One, RMul(RSub(One, rawR2), Rat(n - p - 1, n - 1)))
    ELSE rawR2

\* adjustedRSquared, after the NaN check; rawR2 is rSquared before its own check
AdjustedRSquaredOf(rawR2, n, p) ==
    LET adj == IF n > p + 1
               THEN RSub(One, RMul(RSub(One, rawR2), Rat(n - 1, n - p - 1)))
               ELSE rawR2
    IN  IF IsNaN(adj) THEN Zero ELSE adj

ResidualStandardError(ssResidual, n, p) ==
    IF n > p + 1 THEN SSqrt(RDiv(ssResidual, Int2Rat(n - p - 1))) ELSE SNum(Zero)

Intercept == <<"I", "n", "t", "e", "r", "c", "e", "p", "t">>

\* the six numbers stored for one coefficient
CoefficientEntry(coef, mse, variance, df) ==
    LET tCritical == getCriticalTValue(df)
        se == SSqrt(RMul(mse, variance))
        tStat == IF SqrtPositive(se) THEN DivBySqrt(coef, se) ELSE SNum(Zero)
    IN  [coefficient |-> coef,
         standardError |-> se,
         tStat |-> tStat,
         pValue |-> calculatePValue(tStat, df),
         ci95Lower |-> AddScaledSqrt(coef, RNeg(tCritical), se),
         ci95Upper |-> AddScaledSqrt(coef, tCritical, se)]

\* coefficientStats[key] = entry
Put(obj, key, entry) ==
    [k \in (DOMAIN obj) \cup {key} |-> IF k = key THEN entry ELSE obj[k]]

\* coefficientStats after the intercept and the first k slope entries
RECURSIVE StatsAfter(_, _, _, _, _, _, _)
StatsAfter(k, cols, beta, inv, mse, df, intercept) ==
    IF k = 0
    THEN Put(<<>>, Intercept, CoefficientEntry(intercept, mse, inv[1][1], df))
    ELSE Put(StatsAfter(k - 1, cols, beta, inv, mse, df, intercept), cols[k],
             CoefficientEntry(beta[k], mse, inv[k + 1][k + 1], df))

\* the try block: XtXInv[i + 1] is undefined for i >= X[0].length - 1, the
\* read of [i + 1] on it throws, and the catch keeps what was stored so far
CoefficientStats(data, cols, beta, ssResidual, intercept) ==
    LET n == Len(data)
        p == Len(cols)
        m == Len(data[1])
        XtXInv == invertMatrix(GramMatrix(designMatrix(data), m + 1))
        mse == IF n > p + 1 THEN RDiv(ssResidual, Int2Rat(n - p - 1))
               ELSE RDiv(ssResidual, Int2Rat(n - 1))
    IN  StatsAfter(IF m < p THEN m ELSE p, cols, beta, XtXInv, mse, n - p - 1, intercept)

\* everything after the solver's call, from the slopes object to resolve(..)
RegressionResult(fitted, data, ys, actual, dummyNames) ==
    LET allXCols == actual \o dummyNames
        slopes == SlopesObject(allXCols, fitted.slopes)
        intercept == fitted.intercept
        predictions == Predictions(data, allXCols, slopes, intercept)
        ssTotal == SSTotal(ys)
        ssResidual == SSResidual(ys, predictions)
        rawR2 == IF ssTotal = Zero THEN Zero ELSE RSub(One, RDiv(ssResidual, ssTotal))
        rSquared == RSquaredOf(ssTotal, ssResidual)
        n == Len(ys)
        p == Len(allXCols)
    IN  [slopes |-> slopes,
         intercept |-> intercept,
         rSquared |-> rSquared,
         adjustedRSquared |-> AdjustedRSquaredOf(rawR2, n, p),
         multipleR |-> SSqrt(RAbs(rSquared)),
         standardError |-> ResidualStandardError(ssResidual, n, p),
         predictions |-> predictions,
         xColumns |-> allXCols,
         coefficientStats |->
             CoefficientStats(data, allXCols, fitted.slopes, ssResidual, intercept)]

(***************************************************************************)
(* createDummyVariables                                                    *)
(***************************************************************************)
\* the values baseCaseCategory takes: left out, a string, or the boolean
\* true that the selectColumn command passes
NotGiven == [kind |-> "undefined"]
GivenTrue == [kind |-> "boolean"]
Given(c) == [kind |-> "string", s |-> c]

\* if (values[colIndex]): undefined and '' are falsy
CellGiven(v) == v # Missing /\ v # <<>>

\* baseCaseCategory && category === baseCaseCategory
IsBaseCase(base, category) ==
    /\ base.kind = "boolean" \/ (base.kind = "string" /\ base.s # <<>>)
    /\ base.kind = "string" /\ base.s = category

Categories(rows, colIndex) ==
    {v \in {CellAt(rows[i], colIndex) : i \in 2..Len(rows)} : CellGiven(v)}

\* an indicator vector that reads the line above each data row
IndicatorVectorLineAbove(rows, colIndex, category) ==
    Array([j \in 1..(Len(rows) - 1) |->
              IF CellAt(rows[j], colIndex) = category THEN 1 ELSE 0])

IndicatorVector(rows, colIndex, category) ==
    Array([j \in 1..(Len(rows) - 1) |->
              IF CellAt(rows[j + 1], colIndex) = category THEN 1 ELSE 0])

\* the promise's outcome: [rejected |-> message] or [resolved |-> the
\* object's entries in insertion order]
createDummyVariables(rows, column, base) ==
    IF Len(rows) < 2 THEN [rejected |-> "CSV file must have at least 2 rows"]
    ELSE LET hdr == TrimAll(rows[1])
             colIndex == IndexOf(hdr, column)
         IN  IF colIndex = 0 THEN [rejected |-> "Column not found"]
             ELSE LET categoryList == SortStrings(Categories(rows, colIndex))
                      made == SelectSeq(categoryList,
                                        LAMBDA c : ~IsBaseCase(base, c))
                  IN  [resolved |->
                          Array([k \in 1..Len(made) |->
                              [name |-> DummyName(column, made[k]),
                               values |-> IndicatorVector(rows, colIndex, made[k])]])]

(***************************************************************************)
(* Inputs                                                                  *)
(***************************************************************************)
MaxRows == 3    \* data rows of an enumerated table

Hours == <<"H">>
Grade == <<"G">>
Score == <<"S">>
Category == <<"C">>
Absent == <<"Z">>       \* a column no header has
Dept == <<"D">>         \* a categorical source no header has
CatA == <<"A">>
CatB == <<"B">>
CatC == <<"C">>

\* header and data rows over the columns H, G, S, C; the header is written
\* "H, G,S,C", one row is short, one holds a non-numeric H, one has padded
\* cells and a number followed by text
Header == <<Hours, <<" ", "G">>, Score, Category>>
RowTemplates ==
    { << <<"1">>, <<"2">>, <<"3">>, CatA >>,
      << <<"2">>, <<"1">>, <<"5">>, CatB >>,
      << <<"2">>, <<"3">>, <<"4">>, CatB >>,
      << <<"2">>, <<"2">> >>,
      << <<"x">>, <<"1">>, <<"2">>, CatC >>,
      << <<" ", "3">>, <<"1">>, <<"7", "x">>, <<" ", "C">> >> }

RECURSIVE RowSeqs(_)
RowSeqs(k) == IF k = 0 THEN {<<>>}
              ELSE RowSeqs(k - 1) \cup
                   {rs \o <<r>> : rs \in {q \in RowSeqs(k - 1) : Len(q) = k - 1},
                                  r \in RowTemplates}

\* test_data.csv as the tests spell it out: Hours,Score,Category
Num(k) == IF k < 10 THEN <<ToString(k)>>
          ELSE IF k < 100 THEN <<ToString(k \div 10), ToString(k % 10)>>
          ELSE <<ToString(k \div 100), ToString((k \div 10) % 10), ToString(k % 10)>>
TestDataHours == <<2, 3, 4, 5, 6, 7, 8, 1, 9, 10>>
TestDataScore == <<65, 75, 85, 95, 105, 115, 125, 50, 130, 140>>
TestData ==
    << <<Hours, Score, Category>> >> \o
    [i \in 1..10 |-> <<Num(TestDataHours[i]), Num(TestDataScore[i]),
                       IF i % 2 = 1 THEN CatA ELSE CatB>>]

Tables == {<<Header>> \o rs : rs \in RowSeqs(MaxRows)}

DV(col, cats) == [col |-> col, cats |-> cats]

\* the calls: xColumns, yColumn, dummyVariables (sources in key order, each
\* with its categories in key order)
Requests ==
    { [x |-> <<Hours>>, y |-> Score, dv |-> <<>>],
      [x |-> <<Hours, Grade>>, y |-> Score, dv |-> <<>>],
      [x |-> <<Grade, Hours>>, y |-> Score, dv |-> <<>>],
      [x |-> <<>>, y |-> Score, dv |-> <<>>],
      [x |-> <<Hours, Absent>>, y |-> Score, dv |-> <<>>],
      [x |-> <<Hours>>, y |-> Absent, dv |-> <<>>],
      [x |-> <<Hours, DummyName(Category, CatB)>>, y |-> Score,
       dv |-> <<DV(Category, <<CatA, CatB>>)>>],
      [x |-> <<DummyName(Category, CatC), Hours, DummyName(Category, CatB)>>,
       y |-> Score, dv |-> <<DV(Category, <<CatA, CatC, CatB>>)>>],
      [x |-> <<Hours, DummyName(Category, CatA), DummyName(Category, CatB),
               DummyName(Category, CatC)>>,
       y |-> Score, dv |-> <<DV(Category, <<CatA, CatB, CatC>>)>>],
      [x |-> <<Hours>>, y |-> Score, dv |-> <<DV(Category, <<CatA>>)>>],
      [x |-> <<Hours>>, y |-> Score, dv |-> <<DV(Category, <<CatA, CatB>>)>>],
      [x |-> <<DummyName(Dept, CatB), DummyName(Category, CatB)>>, y |-> Score,
       dv |-> <<DV(Dept, <<CatA, CatB>>), DV(Category, <<CatA, CatB>>)>>],
      [x |-> <<DummyName(Category, CatB), DummyName(Grade, <<"2">>)>>, y |-> Score,
       dv |-> <<DV(Category, <<CatA, CatB>>), DV(Grade, <<<<"1">>, <<"2">>>>)>>] }

\* the call most tests make on test_data.csv (Scenario A); the exact
\* fractions of its two-predictor fits do not fit 32-bit integers
TestDataRequests == {[x |-> <<Hours>>, y |-> Score, dv |-> <<>>]}

Calls == {[t |-> t, q |-> q] : t \in Tables, q \in Requests}
         \cup {[t |-> TestData, q |-> q] : q \in TestDataRequests}

(***************************************************************************)
(* The state machine: one call of performLinearRegression                  *)
(***************************************************************************)
NoResult == [none |-> TRUE]

\* no call of getCriticalTValue on its own is under way
CriticalIdle == criticalDf = 0 /\ criticalT = NoResult

\* no call of createDummyVariables on its own is under way
EncoderIdle ==
    /\ csvRows = <<>>
    /\ categoricalColumn = <<>>
    /\ baseCaseCategory = NotGiven
    /\ dummies = NoResult

\* no history service is in use
HistoryIdle == history = <<>> /\ entriesAdded = 0 /\ lastEntry = NoResult

\* no system is being solved or inverted on its own, no text parsed
SolverIdle ==
    /\ unit = 0
    /\ matrixA = <<>>
    /\ vectorB = <<>>
    /\ solution = NoResult
    /\ inverse = NoResult

ParserIdle == sourceTable = <<>> /\ content = <<>> /\ parsedRows = NoResult

\* no command has run: the providers are not in use
CommandIdle ==
    /\ arrays = <<>>
    /\ provider = NoResult
    /\ modelConfigProvider = NoResult
    /\ running = NoResult
    /\ panel = NoResult
    /\ fits = <<>>
    /\ commandsRun = 0

Init ==
    /\ \E c \in Calls :
        /\ table = c.t
        /\ xColumns = c.q.x
        /\ yColumn = c.q.y
        /\ dummyVariables = c.q.dv
    /\ pc = "resolveColumns"
    /\ headers = <<>>
    /\ actualCsvColumns = <<>>
    /\ dummyColumnNames = <<>>
    /\ dummySourceIndices = <<>>
    /\ regressionData = <<>>
    /\ yValues = <<>>
    /\ keptRows = <<>>
    /\ regression = NoResult
    /\ result = NoResult
    /\ error = "none"
    /\ CriticalIdle
    /\ EncoderIdle
    /\ invocations = <<>>
    /\ HistoryIdle
    /\ CommandIdle
    /\ SolverIdle
    /\ ParserIdle

\* from parseCSV's return to the source-index loop: the two throws and the
\* column bookkeeping
ResolveColumns ==
    /\ pc = "resolveColumns"
    /\ LET hdr == TrimAll(table[1])
       IN  IF Len(table) < 2
           THEN /\ error' = "NeedTwoRows"
                /\ pc' = "rejected"
                /\ UNCHANGED <<headers, actualCsvColumns, dummyColumnNames,
                               dummySourceIndices>>
           ELSE IF IndexOf(hdr, yColumn) = 0
           THEN /\ error' = "ColumnNotFound"
                /\ pc' = "rejected"
                /\ headers' = hdr
                /\ UNCHANGED <<actualCsvColumns, dummyColumnNames, dummySourceIndices>>
           ELSE /\ headers' = hdr
                /\ actualCsvColumns' = FilterIncluded(xColumns, hdr)
                /\ dummyColumnNames' = DummyColumnNames(dummyVariables)
                /\ dummySourceIndices' = DummySourceIndices(dummyVariables, hdr)
                /\ pc' = "buildRows"
                /\ error' = "none"
    /\ UNCHANGED <<inputVars, regressionData, yValues, keptRows, regression, result>>
    /\ UNCHANGED outsideFit

\* a row check that asks for two rows more than there are raw predictors
NotEnoughRowsForPredictors(data, cols) == Len(data) < Len(cols) + 2

\* if (regressionData.length < 2) throw ..
NotEnoughRows(data, cols) == Len(data) < 2

\* the loop over the data rows and the check that follows it
BuildRows ==
    /\ pc = "buildRows"
    /\ LET kept == KeptRows(table, 1, headers, yColumn, actualCsvColumns)
       IN  /\ keptRows' = kept
           /\ regressionData' =
                [k \in 1..Len(kept) |->
                    DataRow(table, kept[k], headers, actualCsvColumns,
                            dummyVariables, dummySourceIndices)]
           /\ yValues' = [k \in 1..Len(kept) |-> RowY(table, kept[k], headers, yColumn)]
           /\ IF NotEnoughRows(regressionData', actualCsvColumns)
              THEN error' = "NotEnoughValidRows" /\ pc' = "rejected"
              ELSE error' = "none" /\ pc' = "regress"
    /\ UNCHANGED <<inputVars, headers, actualCsvColumns, dummyColumnNames,
                   dummySourceIndices, regression, result>>
    /\ UNCHANGED outsideFit

\* the solver, the statistics and resolve(..)
Regress ==
    /\ pc = "regress"
    /\ regression' = multipleLinearRegression(regressionData, yValues)
    /\ result' = RegressionResult(regression', regressionData, yValues,
                                  actualCsvColumns, dummyColumnNames)
    /\ pc' = "resolved"
    /\ UNCHANGED <<inputVars, headers, actualCsvColumns, dummyColumnNames,
                   dummySourceIndices, regressionData, yValues, keptRows, error>>
    /\ UNCHANGED outsideFit

Next == ResolveColumns \/ BuildRows \/ Regress

Spec == Init /\ [][Next]_vars

(***************************************************************************)
(* A call of getCriticalTValue on its own                                  *)
(***************************************************************************)
\* no call of performLinearRegression is under way
FitIdle ==
    /\ table = <<>>
    /\ xColumns = <<>>
    /\ yColumn = <<>>
    /\ dummyVariables = <<>>
    /\ pc = "idle"
    /\ headers = <<>>
    /\ actualCsvColumns = <<>>
    /\ dummyColumnNames = <<>>
    /\ dummySourceIndices = <<>>
    /\ regressionData = <<>>
    /\ yValues = <<>>
    /\ keptRows = <<>>
    /\ regression = NoResult
    /\ result = NoResult
    /\ error = "none"

ExtraDf == 2    \* degrees of freedom tried below 0 and above the table's last

DfInputs == (0 - ExtraDf)..(dfValues[Len(dfValues)] + ExtraDf)

CriticalInit ==
    /\ FitIdle
    /\ EncoderIdle
    /\ invocations = <<>>
    /\ HistoryIdle
    /\ CommandIdle
    /\ SolverIdle
    /\ ParserIdle
    /\ criticalDf \in DfInputs
    /\ criticalT = NoResult

LookUpCritical ==
    /\ criticalT = NoResult
    /\ criticalT' = getCriticalTValue(criticalDf)
    /\ UNCHANGED <<criticalDf, inputVars, fitVars, encoderVars, invocations, historyVars, commandVars,
                   solverVars, parserVars>>

CriticalNext == LookUpCritical

CriticalSpec == CriticalInit /\ [][CriticalNext]_vars

(***************************************************************************)
(* A call of createDummyVariables on its own                               *)
(***************************************************************************)
\* the enumerated tables, and the same with one more row whose category
\* cell is empty
EmptyCategoryRow == << <<"4">>, <<"1">>, <<"6">>, <<>> >>
EncoderTables == Tables \cup {Append(t, EmptyCategoryRow) : t \in Tables}

EncoderColumns == {Category, Grade, Absent}
BaseCases == {NotGiven, GivenTrue, Given(<<>>), Given(CatA), Given(CatB),
              Given(<<"1">>)}

EncoderInit ==
    /\ FitIdle
    /\ CriticalIdle
    /\ invocations = <<>>
    /\ HistoryIdle
    /\ CommandIdle
    /\ SolverIdle
    /\ ParserIdle
    /\ csvRows \in EncoderTables
    /\ categoricalColumn \in EncoderColumns
    /\ baseCaseCategory \in BaseCases
    /\ dummies = NoResult

Encode ==
    /\ dummies = NoResult
    /\ dummies' = createDummyVariables(csvRows, categoricalColumn, baseCaseCategory)
    /\ UNCHANGED <<csvRows, categoricalColumn, baseCaseCategory,
                   inputVars, fitVars, criticalVars, invocations, historyVars, commandVars,
                   solverVars, parserVars>>

EncoderNext == Encode

EncoderSpec == EncoderInit /\ [][EncoderNext]_vars

(***************************************************************************)
(* Several calls of performLinearRegression in flight together             *)
(*                                                                         *)
(* Each call owns the locals of its readFile callback.  The calls take     *)
(* their steps in any order, which covers one call after the other as      *)
(* well as any interleaving of the callbacks.                              *)
(***************************************************************************)
PairRows == 2   \* data rows of the tables the twin calls fit

PairTemplates ==
    { << <<"1">>, <<"2">>, <<"3">>, CatA >>,
      << <<"2">>, <<"1">>, <<"5">>, CatB >>,
      << <<"x">>, <<"1">>, <<"2">>, CatC >>,
      << <<" ", "3">>, <<"1">>, <<"7", "x">>, <<" ", "C">> >> }
PairTables == {<<Header>> \o rs : rs \in {q \in RowSeqs(PairRows) :
                                            \A i \in 1..Len(q) : q[i] \in PairTemplates}}
PairRequests ==
    { [x |-> <<Hours>>, y |-> Score, dv |-> <<>>],
      [x |-> <<Hours, DummyName(Category, CatB)>>, y |-> Score,
       dv |-> <<DV(Category, <<CatA, CatB>>)>>],
      [x |-> <<DummyName(Category, CatC), Hours, DummyName(Category, CatB)>>,
       y |-> Score, dv |-> <<DV(Category, <<CatA, CatC, CatB>>)>>],
      [x |-> <<Hours>>, y |-> Absent, dv |-> <<>>] }
PairCalls == {[t |-> t, q |-> q] : t \in PairTables, q \in PairRequests}

\* the fits on other inputs that run next to the twins
IndependentCalls ==
    { [t |-> <<Header, << <<"2">>, <<"2">>, <<"4">>, CatB >>,
                       << <<"4">>, <<"1">>, <<"6">>, CatB >> >>,
       q |-> [x |-> <<Hours>>, y |-> Score, dv |-> <<>>]],
      [t |-> <<Header, << <<"1">>, <<"1">>, <<"2">>, CatC >>,
                       << <<"3">>, <<"2">>, <<"9">>, CatA >>,
                       << <<"5">>, <<"2">>, <<"1">>, CatC >> >>,
       q |-> [x |-> <<Grade, DummyName(Category, CatC)>>, y |-> Score,
              dv |-> <<DV(Category, <<CatA, CatC>>)>>]] }

\* a call as it enters its callback
Invoked(c) ==
    [t |-> c.t, x |-> c.q.x, y |-> c.q.y, dv |-> c.q.dv,
     pc |-> "resolveColumns", headers |-> <<>>, actualCsvColumns |-> <<>>,
     dummyColumnNames |-> <<>>, dummySourceIndices |-> <<>>,
     regressionData |-> <<>>, yValues |-> <<>>,
     result |-> NoResult, error |-> "none"]

\* invocations with call k replaced by its next state
Stepped(k, next) ==
    Array([j \in 1..Len(invocations) |-> IF j = k THEN next ELSE invocations[j]])

\* one array of dummy column names that every call pushes to
RECURSIVE SharedDummyColumnNames(_, _)
SharedDummyColumnNames(calls, k) ==
    IF Len(calls) = 0 THEN <<>>
    ELSE SharedDummyColumnNames(SubSeq(calls, 1, Len(calls) - 1), k)
         \o calls[Len(calls)].dummyColumnNames

\* const dummyColumnNames: string[] = [] of call k's own callback
OwnDummyColumnNames(calls, k) == calls[k].dummyColumnNames

PairInit ==
    /\ FitIdle
    /\ CriticalIdle
    /\ EncoderIdle
    /\ HistoryIdle
    /\ CommandIdle
    /\ SolverIdle
    /\ ParserIdle
    /\ \E c \in PairCalls, o \in IndependentCalls :
        invocations = <<Invoked(c), Invoked(c), Invoked(o)>>

InvocationResolveColumns(k) ==
    /\ invocations[k].pc = "resolveColumns"
    /\ LET c == invocations[k]
           hdr == TrimAll(c.t[1])
       IN  invocations' = Stepped(k,
             IF Len(c.t) < 2
             THEN [t |-> c.t, x |-> c.x, y |-> c.y, dv |-> c.dv,
                   pc |-> "rejected", headers |-> c.headers,
                   actualCsvColumns |-> <<>>, dummyColumnNames |-> <<>>,
                   dummySourceIndices |-> <<>>, regressionData |-> <<>>,
                   yValues |-> <<>>, result |-> NoResult, error |-> "NeedTwoRows"]
             ELSE IF IndexOf(hdr, c.y) = 0
             THEN [t |-> c.t, x |-> c.x, y |-> c.y, dv |-> c.dv,
                   pc |-> "rejected", headers |-> hdr,
                   actualCsvColumns |-> <<>>, dummyColumnNames |-> <<>>,
                   dummySourceIndices |-> <<>>, regressionData |-> <<>>,
                   yValues |-> <<>>, result |-> NoResult, error |-> "ColumnNotFound"]
             ELSE [t |-> c.t, x |-> c.x, y |-> c.y, dv |-> c.dv,
                   pc |-> "buildRows", headers |-> hdr,
                   actualCsvColumns |-> FilterIncluded(c.x, hdr),
                   dummyColumnNames |-> DummyColumnNames(c.dv),
                   dummySourceIndices |-> DummySourceIndices(c.dv, hdr),
                   regressionData |-> <<>>, yValues |-> <<>>,
                   result |-> NoResult, error |-> "none"])
    /\ UNCHANGED <<inputVars, fitVars, criticalVars, encoderVars, historyVars, commandVars,
                   solverVars, parserVars>>

InvocationBuildRows(k) ==
    /\ invocations[k].pc = "buildRows"
    /\ LET c == invocations[k]
           kept == KeptRows(c.t, 1, c.headers, c.y, c.actualCsvColumns)
           data == Array([i \in 1..Len(kept) |->
                       DataRow(c.t, kept[i], c.headers, c.actualCsvColumns,
                               c.dv, c.dummySourceIndices)])
           ys == Array([i \in 1..Len(kept) |-> RowY(c.t, kept[i], c.headers, c.y)])
           short == NotEnoughRows(data, c.actualCsvColumns)
       IN  invocations' = Stepped(k,
             [t |-> c.t, x |-> c.x, y |-> c.y, dv |-> c.dv,
              pc |-> IF short THEN "rejected" ELSE "regress",
              headers |-> c.headers, actualCsvColumns |-> c.actualCsvColumns,
              dummyColumnNames |-> c.dummyColumnNames,
              dummySourceIndices |-> c.dummySourceIndices,
              regressionData |-> data, yValues |-> ys, result |-> NoResult,
              error |-> IF short THEN "NotEnoughValidRows" ELSE "none"])
    /\ UNCHANGED <<inputVars, fitVars, criticalVars, encoderVars, historyVars, commandVars,
                   solverVars, parserVars>>

InvocationRegress(k) ==
    /\ invocations[k].pc = "regress"
    /\ LET c == invocations[k]
       IN  invocations' = Stepped(k,
             [t |-> c.t, x |-> c.x, y |-> c.y, dv |-> c.dv,
              pc |-> "resolved",
              headers |-> c.headers, actualCsvColumns |-> c.actualCsvColumns,
              dummyColumnNames |-> c.dummyColumnNames,
              dummySourceIndices |-> c.dummySourceIndices,
              regressionData |-> c.regressionData, yValues |-> c.yValues,
              result |-> RegressionResult(
                             multipleLinearRegression(c.regressionData, c.yValues),
                             c.regressionData, c.yValues, c.actualCsvColumns,
                             OwnDummyColumnNames(invocations, k)),
              error |-> "none"])
    /\ UNCHANGED <<inputVars, fitVars, criticalVars, encoderVars, historyVars, commandVars,
                   solverVars, parserVars>>

PairNext ==
    \E k \in 1..Len(invocations) :
        \/ InvocationResolveColumns(k)
        \/ InvocationBuildRows(k)
        \/ InvocationRegress(k)

PairSpec == PairInit /\ [][PairNext]_vars

(***************************************************************************)
(* RegressionHistoryService                                                *)
(*                                                                         *)
(* An entry is modelled by its id: entry n is the one the n-th addEntry    *)
(* built.                                                                  *)
(***************************************************************************)
MAX_HISTORY == 50
MaxAdds == 52   \* addEntry calls of a run

UndefinedEntry == [undefined |-> TRUE]
Entry(n) == [id |-> n]

\* slice(0, end) of a sequence
Slice(h, end) == SubSeq(h, 1, IF end < Len(h) THEN end ELSE Len(h))

\* a history that drops its newest entry when it overflows
addEntryDropsNewest(h, entry) ==
    LET unshifted == <<entry>> \o h
    IN  IF Len(unshifted) > MAX_HISTORY
        THEN SubSeq(unshifted, 2, Len(unshifted))
        ELSE unshifted

\* this.history after addEntry
addEntry(h, entry) ==
    LET unshifted == <<entry>> \o h
    IN  IF Len(unshifted) > MAX_HISTORY
        THEN Slice(unshifted, MAX_HISTORY)
        ELSE unshifted

getLastEntry(h) == IF Len(h) = 0 THEN UndefinedEntry ELSE h[1]

EngineIdle ==
    /\ FitIdle
    /\ CriticalIdle
    /\ EncoderIdle
    /\ invocations = <<>>
    /\ SolverIdle
    /\ ParserIdle
engineVars == <<inputVars, fitVars, criticalVars, encoderVars, invocations,
               solverVars, parserVars>>

HistoryInit ==
    /\ EngineIdle
    /\ CommandIdle
    /\ history = <<>>
    /\ entriesAdded = 0
    /\ lastEntry = NoResult

AddEntry ==
    /\ entriesAdded < MaxAdds
    /\ entriesAdded' = entriesAdded + 1
    /\ history' = addEntry(history, Entry(entriesAdded'))
    /\ UNCHANGED <<lastEntry, engineVars, commandVars>>

ClearHistory ==
    /\ history' = <<>>
    /\ UNCHANGED <<entriesAdded, lastEntry, engineVars, commandVars>>

GetLastEntry ==
    /\ lastEntry' = getLastEntry(history)
    /\ UNCHANGED <<history, entriesAdded, engineVars, commandVars>>

HistoryNext == AddEntry \/ ClearHistory \/ GetLastEntry

HistorySpec == HistoryInit /\ [][HistoryNext]_vars

(***************************************************************************)
(* The commands over LinearRegressionProvider and ModelConfigProvider      *)
(*                                                                         *)
(* string[] values are objects: arrays holds them, and the fields that     *)
(* hold a string[] hold its index in arrays, so that two fields holding    *)
(* the same array see each other's push.                                   *)
(***************************************************************************)
MaxCommands == 5    \* commands and tree expansions of a run

Null == <<"null">>

\* the one CSV file of the workspace, as parsed
CommandTable ==
    << <<Hours, Score, Category>>,
       << <<"1">>, <<"3">>, CatA >>,
       << <<"2">>, <<"5">>, CatB >>,
       << <<"3">>, <<"4">>, CatA >> >>
CommandColumns == CommandTable[1]
FilePath == <<"f">>
QuickPicks == {"X (Independent)", "Y (Dependent)", "Create Dummy Variables", "dismissed"}

Provider(file, cols, x, y, dv) ==
    [selectedFile |-> file, columns |-> cols, selectedXColumns |-> x,
     selectedYColumn |-> y, dummyVariables |-> dv]
ModelConfig(x, y, d, base) ==
    [xColumns |-> x, yColumn |-> y, dummyColumns |-> d, baseCaseDummy |-> base]

\* arrays with the array at ref replaced
Store(h, ref, value) == Array([r \in 1..Len(h) |-> IF r = ref THEN value ELSE h[r]])

\* addSelectedXColumn on the array at ref
addSelectedXColumn(h, ref, column) ==
    IF Includes(h[ref], column) THEN h ELSE Store(h, ref, Append(h[ref], column))

RECURSIVE AddEach(_, _, _)
AddEach(h, ref, names) ==
    IF names = <<>> THEN h
    ELSE AddEach(addSelectedXColumn(h, ref, Head(names)), ref, Tail(names))

Without(names, column) == SelectSeq(names, LAMBDA c : c # column)

\* xColumns.filter(col => col.includes('_') && !provider.getColumns().includes(col))
DummyLooking(names, cols) ==
    SelectSeq(names, LAMBDA c : Includes(c, "_") /\ ~Includes(cols, c))

\* Object.keys(dummies) of createDummyVariables(file, column, true)
DummyNamesOf(column) ==
    LET made == createDummyVariables(CommandTable, column, GivenTrue)
    IN  IF "resolved" \in DOMAIN made
        THEN [k \in 1..Len(made.resolved) |-> made.resolved[k].name]
        ELSE <<>>

getEntryById(h, id) == SelectSeq(h, LAMBDA e : e.id = id)

\* performLinearRegression as one call: what the promise settles with, and
\* for a resolved call the locals the result was computed from
performLinearRegression(rows, x, y, dvs) ==
    LET hdr == TrimAll(rows[1])
        actual == FilterIncluded(x, hdr)
        names == DummyColumnNames(dvs)
        idxs == DummySourceIndices(dvs, hdr)
        kept == KeptRows(rows, 1, hdr, y, actual)
        data == Matrix([k \in 1..Len(kept) |->
                    DataRow(rows, kept[k], hdr, actual, dvs, idxs)])
        ys == Array([k \in 1..Len(kept) |-> RowY(rows, kept[k], hdr, y)])
    IN  IF Len(rows) < 2 THEN [rejected |-> "NeedTwoRows"]
        ELSE IF IndexOf(hdr, y) = 0 THEN [rejected |-> "ColumnNotFound"]
        ELSE IF NotEnoughRows(data, actual) THEN [rejected |-> "NotEnoughValidRows"]
        ELSE [resolved |-> RegressionResult(multipleLinearRegression(data, ys),
                                            data, ys, actual, names),
              regressionData |-> data,
              keptRows |-> kept]

\* the loop of runRegressionLogic over provider.getColumns(): the stored
\* expansions that have a key, as the argument dummyVariables of the fit
RECURSIVE DummyVariablesData(_, _)
DummyVariablesData(cols, stored) ==
    IF cols = <<>> THEN <<>>
    ELSE (IF Includes(stored, Head(cols)) /\ DummyNamesOf(Head(cols)) # <<>>
          THEN <<DV(Head(cols), DummyNamesOf(Head(cols)))>>
          ELSE <<>>)
         \o DummyVariablesData(Tail(cols), stored)

\* showResults: one coefficient row per name of results.xColumns whose slope
\* is not undefined; the numbers are the ones formatNumber is applied to
showResults(yCol, results) ==
    [yColumn |-> yCol,
     intercept |-> results.intercept,
     rSquared |-> results.rSquared,
     adjustedRSquared |-> results.adjustedRSquared,
     coefficients |->
        LET shown == SelectSeq(results.xColumns,
                               LAMBDA col : /\ col \in DOMAIN results.slopes
                                            /\ results.slopes[col] # Undefined)
        IN  Array([k \in 1..Len(shown) |->
                    [name |-> shown[k], coef |-> results.slopes[shown[k]]]])]

CommandInit ==
    /\ EngineIdle
    /\ history = <<>>
    /\ entriesAdded = 0
    /\ lastEntry = NoResult
    /\ arrays = << <<>>, <<>> >>
    /\ provider = Provider(Null, <<>>, 1, Null, <<>>)
    /\ modelConfigProvider = ModelConfig(2, Null, <<>>, Null)
    /\ running = NoResult
    /\ panel = NoResult
    /\ fits = <<>>
    /\ commandsRun = 0

\* what a command leaves alone besides the fields it names
Counted ==
    /\ commandsRun < MaxCommands
    /\ commandsRun' = commandsRun + 1
    /\ UNCHANGED <<lastEntry, fits, engineVars>>

\* getChildren of a CSV file item: the tree view expands the file
ExpandFile ==
    /\ Counted
    /\ provider' = Provider(FilePath, CommandColumns, provider.selectedXColumns,
                            provider.selectedYColumn, provider.dummyVariables)
    /\ UNCHANGED <<arrays, modelConfigProvider, running, panel, history, entriesAdded>>

SelectCsvFile ==
    /\ Counted
    /\ arrays' = arrays \o << <<>>, <<>> >>
    /\ provider' = Provider(provider.selectedFile, provider.columns,
                            Len(arrays) + 1, Null, provider.dummyVariables)
    /\ modelConfigProvider' = ModelConfig(Len(arrays) + 2, Null, <<>>, modelConfigProvider.baseCaseDummy)
    /\ UNCHANGED <<running, panel, history, entriesAdded>>

SelectColumn(column, columnType) ==
    /\ Counted
    /\ UNCHANGED <<running, panel, history, entriesAdded>>
    /\ IF provider.selectedFile = Null \/ columnType = "dismissed"
       THEN UNCHANGED <<arrays, provider, modelConfigProvider>>
       ELSE IF columnType = "X (Independent)"
       THEN /\ arrays' = addSelectedXColumn(arrays, provider.selectedXColumns, column)
            /\ modelConfigProvider' =
                 ModelConfig(provider.selectedXColumns, modelConfigProvider.yColumn,
                             modelConfigProvider.dummyColumns, modelConfigProvider.baseCaseDummy)
            /\ UNCHANGED provider
       ELSE IF columnType = "Y (Dependent)"
       THEN /\ provider' = Provider(provider.selectedFile, provider.columns,
                                    provider.selectedXColumns, column,
                                    provider.dummyVariables)
            /\ modelConfigProvider' =
                 ModelConfig(modelConfigProvider.xColumns, column,
                             modelConfigProvider.dummyColumns, modelConfigProvider.baseCaseDummy)
            /\ UNCHANGED arrays
       ELSE LET made == createDummyVariables(CommandTable, column, GivenTrue)
            IN  IF "rejected" \in DOMAIN made
                THEN UNCHANGED <<arrays, provider, modelConfigProvider>>
                ELSE /\ arrays' = AddEach(arrays, provider.selectedXColumns,
                                          DummyNamesOf(column))
                     /\ provider' =
                          Provider(provider.selectedFile, provider.columns,
                                   provider.selectedXColumns, provider.selectedYColumn,
                                   Without(provider.dummyVariables, column)
                                       \o <<column>>)
                     /\ modelConfigProvider' =
                          ModelConfig(provider.selectedXColumns,
                                      modelConfigProvider.yColumn,
                                      DummyLooking(arrays'[provider.selectedXColumns],
                                                   provider.columns), modelConfigProvider.baseCaseDummy)

\* runRegressionLogic up to its await of performLinearRegression
RunLinearRegression ==
    /\ Counted
    /\ running = NoResult
    /\ UNCHANGED <<arrays, provider, modelConfigProvider, panel, history,
                   entriesAdded>>
    /\ IF \/ provider.selectedFile = Null
          \/ Len(arrays[provider.selectedXColumns]) = 0
          \/ provider.selectedYColumn = Null
       THEN UNCHANGED running
       ELSE running' = [xColumns |-> provider.selectedXColumns,
                        yColumn |-> provider.selectedYColumn,
                        dummyVariablesData |->
                            DummyVariablesData(provider.columns,
                                               provider.dummyVariables)]

\* performLinearRegression settles and runRegressionLogic runs to its end;
\* the callback reads the X column array as it is by then
RegressionSettles ==
    /\ running # NoResult
    /\ running' = NoResult
    /\ UNCHANGED <<arrays, provider, commandsRun, lastEntry, engineVars>>
    /\ \E fit \in {performLinearRegression(CommandTable, arrays[running.xColumns],
                                            running.yColumn,
                                            running.dummyVariablesData)} :
           IF "resolved" \in DOMAIN fit
           THEN /\ entriesAdded' = entriesAdded + 1
                /\ history' = addEntry(history,
                        [id |-> entriesAdded',
                         xColumns |-> running.xColumns,
                         yColumn |-> running.yColumn,
                         rSquared |-> fit.resolved.rSquared,
                         adjustedRSquared |-> fit.resolved.adjustedRSquared,
                         intercept |-> fit.resolved.intercept,
                         slopes |-> fit.resolved.slopes,
                         predictions |-> fit.resolved.predictions])
                /\ modelConfigProvider' =
                     ModelConfig(running.xColumns, running.yColumn,
                                 DummyLooking(arrays[running.xColumns], provider.columns), modelConfigProvider.baseCaseDummy)
                /\ panel' = showResults(running.yColumn, fit.resolved)
                /\ fits' = Append(fits,
                        [xColumns |-> fit.resolved.xColumns,
                         slopes |-> fit.resolved.slopes,
                         intercept |-> fit.resolved.intercept,
                         rSquared |-> fit.resolved.rSquared,
                         adjustedRSquared |-> fit.resolved.adjustedRSquared,
                         regressionData |-> fit.regressionData,
                         keptRows |-> fit.keptRows,
                         dummyVariablesData |-> running.dummyVariablesData])
           ELSE UNCHANGED <<history, entriesAdded, modelConfigProvider, panel, fits>>

RestoreModel(entryId) ==
    /\ Counted
    /\ UNCHANGED <<running, history, entriesAdded>>
    /\ LET found == getEntryById(history, entryId)
       IN  IF found = <<>>
           THEN UNCHANGED <<arrays, provider, modelConfigProvider, panel>>
           ELSE LET entry == found[1]
                    cleared == Append(arrays, <<>>)
                IN  /\ panel' = showResults(entry.yColumn,
                                    [slopes |-> entry.slopes,
                                     intercept |-> entry.intercept,
                                     rSquared |-> entry.rSquared,
                                     adjustedRSquared |-> entry.adjustedRSquared,
                                     predictions |-> entry.predictions,
                                     xColumns |-> arrays[entry.xColumns]])
                    /\ arrays' = AddEach(cleared, Len(cleared), arrays[entry.xColumns])
                    /\ provider' = Provider(provider.selectedFile, provider.columns,
                                            Len(cleared), entry.yColumn,
                                            provider.dummyVariables)
                    /\ modelConfigProvider' =
                         ModelConfig(entry.xColumns, entry.yColumn,
                                     modelConfigProvider.dummyColumns, modelConfigProvider.baseCaseDummy)

ClearCsvFile ==
    /\ Counted
    /\ arrays' = arrays \o << <<>>, <<>> >>
    /\ provider' = Provider(Null, provider.columns, Len(arrays) + 1, Null, <<>>)
    /\ modelConfigProvider' = ModelConfig(Len(arrays) + 2, Null, <<>>, modelConfigProvider.baseCaseDummy)
    /\ UNCHANGED <<running, panel, history, entriesAdded>>

ClearXColumns ==
    /\ Counted
    /\ arrays' = arrays \o << <<>>, <<>> >>
    /\ provider' = Provider(provider.selectedFile, provider.columns,
                            Len(arrays) + 1, provider.selectedYColumn,
                            provider.dummyVariables)
    /\ modelConfigProvider' = ModelConfig(Len(arrays) + 2,
                                          modelConfigProvider.yColumn, <<>>, modelConfigProvider.baseCaseDummy)
    /\ UNCHANGED <<running, panel, history, entriesAdded>>

ClearYColumn ==
    /\ Counted
    /\ provider' = Provider(provider.selectedFile, provider.columns,
                            provider.selectedXColumns, Null, provider.dummyVariables)
    /\ modelConfigProvider' = ModelConfig(modelConfigProvider.xColumns, Null,
                                          modelConfigProvider.dummyColumns, modelConfigProvider.baseCaseDummy)
    /\ UNCHANGED <<arrays, running, panel, history, entriesAdded>>

ClearDummyVariables ==
    /\ Counted
    /\ arrays' = arrays \o << <<>>, <<>> >>
    /\ provider' = Provider(provider.selectedFile, provider.columns,
                            Len(arrays) + 1, provider.selectedYColumn, <<>>)
    /\ modelConfigProvider' = ModelConfig(Len(arrays) + 2,
                                          modelConfigProvider.yColumn, <<>>, modelConfigProvider.baseCaseDummy)
    /\ UNCHANGED <<running, panel, history, entriesAdded>>

RemoveXColumn(columnName) ==
    /\ Counted
    /\ arrays' = arrays \o << Without(arrays[provider.selectedXColumns], columnName),
                              Without(arrays[modelConfigProvider.xColumns], columnName) >>
    /\ provider' = Provider(provider.selectedFile, provider.columns,
                            Len(arrays) + 1, provider.selectedYColumn,
                            provider.dummyVariables)
    /\ modelConfigProvider' = ModelConfig(Len(arrays) + 2,
                                          modelConfigProvider.yColumn,
                                          modelConfigProvider.dummyColumns, modelConfigProvider.baseCaseDummy)
    /\ UNCHANGED <<running, panel, history, entriesAdded>>

RemoveYColumn ==
    /\ Counted
    /\ provider' = Provider(provider.selectedFile, provider.columns,
                            provider.selectedXColumns, Null, provider.dummyVariables)
    /\ modelConfigProvider' = ModelConfig(modelConfigProvider.xColumns, Null,
                                          modelConfigProvider.dummyColumns, modelConfigProvider.baseCaseDummy)
    /\ UNCHANGED <<arrays, running, panel, history, entriesAdded>>

RemoveDummyColumn(columnName) ==
    /\ Counted
    /\ arrays' = Append(arrays, Without(arrays[provider.selectedXColumns], columnName))
    /\ provider' = Provider(provider.selectedFile, provider.columns,
                            Len(arrays) + 1, provider.selectedYColumn,
                            provider.dummyVariables)
    /\ modelConfigProvider' =
         ModelConfig(modelConfigProvider.xColumns, modelConfigProvider.yColumn,
                     Without(modelConfigProvider.dummyColumns, columnName),
                     IF modelConfigProvider.baseCaseDummy = columnName THEN Null
                     ELSE modelConfigProvider.baseCaseDummy)
    /\ UNCHANGED <<running, panel, history, entriesAdded>>

SetDummyVariableBaseCase(columnName) ==
    /\ Counted
    /\ modelConfigProvider' =
         ModelConfig(modelConfigProvider.xColumns, modelConfigProvider.yColumn,
                     modelConfigProvider.dummyColumns, columnName)
    /\ UNCHANGED <<arrays, provider, running, panel, history, entriesAdded>>

\* the items of the model configuration view that the remove commands act on
XItems == {arrays[modelConfigProvider.xColumns][i] :
              i \in 1..Len(arrays[modelConfigProvider.xColumns])}
DummyItems == {modelConfigProvider.dummyColumns[i] :
                  i \in 1..Len(modelConfigProvider.dummyColumns)}

CommandNext ==
    \/ ExpandFile
    \/ SelectCsvFile
    \/ \E column \in {Hours, Score, Category}, columnType \in QuickPicks :
          SelectColumn(column, columnType)
    \/ RunLinearRegression
    \/ RegressionSettles
    \/ \E entryId \in 0..entriesAdded : RestoreModel(entryId)
    \/ ClearCsvFile
    \/ ClearXColumns
    \/ ClearYColumn
    \/ ClearDummyVariables
    \/ \E columnName \in XItems : RemoveXColumn(columnName)
    \/ RemoveYColumn
    \/ \E columnName \in DummyItems : RemoveDummyColumn(columnName)
    \/ \E columnName \in DummyItems : SetDummyVariableBaseCase(columnName)

CommandSpec == CommandInit /\ [][CommandNext]_vars

(***************************************************************************)
(* gaussianElimination and invertMatrix applied to systems of their own    *)
(***************************************************************************)
MaxEntry == 1    \* entries of an enumerated matrix range over -MaxEntry..MaxEntry

Entries == {Int2Rat(k) : k \in (0 - MaxEntry)..MaxEntry}
RhsEntries == {Int2Rat(k) : k \in 0..MaxEntry}

\* 1e-11 is below the threshold 1e-10 of the code, 1 is not
Units == {0, 11}

Numbers(M) == Matrix([r \in 1..Len(M) |-> [c \in 1..Len(M[r]) |-> Int2Rat(M[r][c])]])

\* two identical columns, an all-zero column, a pivot search that swaps
\* rows, and a Gram matrix
ThreeByThree ==
    {Numbers(M) : M \in {<< <<1, 1, 0>>, <<1, 1, 1>>, <<2, 2, 1>> >>,
                         << <<2, 0, 1>>, <<1, 0, 1>>, <<0, 0, 1>> >>,
                         << <<0, 1, 1>>, <<1, 0, 1>>, <<1, 1, 0>> >>,
                         << <<3, 6, 2>>, <<6, 14, 4>>, <<2, 4, 2>> >>}}

Systems ==
    {[A |-> Matrix(A), b |-> Array(b)] :
        A \in [1..1 -> [1..1 -> Entries]], b \in [1..1 -> RhsEntries]}
    \cup {[A |-> Matrix(A), b |-> Array(b)] :
            A \in [1..2 -> [1..2 -> Entries]], b \in [1..2 -> RhsEntries]}
    \cup {[A |-> A, b |-> Array([k \in 1..3 |-> Int2Rat(v[k])])] :
            A \in ThreeByThree, v \in {<<1, 2, 3>>, <<0, 1, 0>>}}

SolverInit ==
    /\ FitIdle
    /\ CriticalIdle
    /\ EncoderIdle
    /\ invocations = <<>>
    /\ HistoryIdle
    /\ CommandIdle
    /\ ParserIdle
    /\ unit \in Units
    /\ \E system \in Systems :
        /\ matrixA = system.A
        /\ vectorB = system.b
    /\ solution = NoResult
    /\ inverse = NoResult

\* gaussianElimination(A, b): A and b are eliminated in place
SolveSystem ==
    /\ matrixA # <<>>
    /\ solution = NoResult
    /\ LET done == gaussianEliminationScaled(matrixA, vectorB, unit)
       IN  /\ matrixA' = done.A
           /\ vectorB' = done.b
           /\ solution' = [x |-> done.x]
    /\ UNCHANGED <<unit, inverse, inputVars, fitVars, criticalVars, encoderVars,
                   invocations, historyVars, commandVars, parserVars>>

\* invertMatrix(A): works on a copy of the rows
InvertMatrix ==
    /\ matrixA # <<>>
    /\ inverse = NoResult
    /\ inverse' = invertMatrixScaled(matrixA, unit)
    /\ UNCHANGED <<unit, matrixA, vectorB, solution, inputVars, fitVars,
                   criticalVars, encoderVars, invocations, historyVars,
                   commandVars, parserVars>>

SolverNext == SolveSystem \/ InvertMatrix

SolverSpec == SolverInit /\ [][SolverNext]_vars

(***************************************************************************)
(* parseCSV: a text is a sequence of characters                            *)
(***************************************************************************)
Quote == "\""
Comma == ","
LF == "\n"
CR == "\r"

\* the locals of parseCSV before its loop
ParserStart == [rows |-> <<>>, cur |-> <<>>, curField |-> <<>>, inQuotes |-> FALSE, i |-> 1]

\* a loop body that closes the quoted field at every quote character
ParseCharEveryQuoteCloses(text, st) ==
    LET ch == text[st.i]
        with(rows, cur, curField, inQuotes, next) ==
            [rows |-> rows, cur |-> cur, curField |-> curField,
             inQuotes |-> inQuotes, i |-> next]
    IN  IF st.inQuotes
        THEN IF ch = Quote
             THEN with(st.rows, st.cur, st.curField, FALSE, st.i + 1)
             ELSE with(st.rows, st.cur, Append(st.curField, ch), TRUE, st.i + 1)
        ELSE IF ch = Comma
             THEN with(st.rows, Append(st.cur, st.curField), <<>>, FALSE, st.i + 1)
        ELSE IF ch = Quote
             THEN with(st.rows, st.cur, st.curField, TRUE, st.i + 1)
        ELSE IF ch = CR
             THEN with(st.rows, st.cur, st.curField, FALSE, st.i + 1)
        ELSE IF ch = LF
             THEN with(Append(st.rows, Append(st.cur, st.curField)), <<>>, <<>>,
                       FALSE, st.i + 1)
        ELSE with(st.rows, st.cur, Append(st.curField, ch), FALSE, st.i + 1)

\* one pass of the loop over the characters: the body for text[i]
ParseChar(text, st) ==
    LET ch == text[st.i]
        with(rows, cur, curField, inQuotes, next) ==
            [rows |-> rows, cur |-> cur, curField |-> curField,
             inQuotes |-> inQuotes, i |-> next]
    IN  IF st.inQuotes
        THEN IF ch = Quote
             THEN IF st.i + 1 <= Len(text) /\ text[st.i + 1] = Quote
                  THEN with(st.rows, st.cur, Append(st.curField, Quote), TRUE, st.i + 2)
                  ELSE with(st.rows, st.cur, st.curField, FALSE, st.i + 1)
             ELSE with(st.rows, st.cur, Append(st.curField, ch), TRUE, st.i + 1)
        ELSE IF ch = Comma
             THEN with(st.rows, Append(st.cur, st.curField), <<>>, FALSE, st.i + 1)
        ELSE IF ch = Quote
             THEN with(st.rows, st.cur, st.curField, TRUE, st.i + 1)
        ELSE IF ch = CR
             THEN with(st.rows, st.cur, st.curField, FALSE, st.i + 1)
        ELSE IF ch = LF
             THEN with(Append(st.rows, Append(st.cur, st.curField)), <<>>, <<>>,
                       FALSE, st.i + 1)
        ELSE with(st.rows, st.cur, Append(st.curField, ch), FALSE, st.i + 1)

RECURSIVE ParseLoop(_, _)
ParseLoop(text, st) ==
    IF st.i > Len(text) THEN st ELSE ParseLoop(text, ParseChar(text, st))

\* rows.filter(r => !(r.length === 1 && r[0] === ''))
NotEmptyRow(r) == ~(Len(r) = 1 /\ r[1] = <<>>)

parseCSV(text) ==
    LET st == ParseLoop(text, ParserStart)
        rows == IF st.curField # <<>> \/ Len(st.cur) > 0
                THEN Append(st.rows, Append(st.cur, st.curField))
                ELSE st.rows
    IN  SelectSeq(rows, NotEmptyRow)

(***************************************************************************)
(* parseCSV applied to texts written from tables of cells                  *)
(***************************************************************************)
MaxCells == 3    \* cells of an enumerated table, all rows together

\* cells: empty, plain, and with each character the parser treats specially
CellSamples == {<<>>, <<"a">>, <<Comma>>, <<Quote>>, <<LF>>, <<Quote, Comma>>}

\* rows of w cells; a row that is a single empty cell is not written
RowsOf(w) == {Array(r) : r \in [1..w -> CellSamples]} \ {<< <<>> >>}

RECURSIVE TablesOf(_)
TablesOf(k) ==
    {<<>>} \cup UNION {{<<r>> \o t : r \in RowsOf(w), t \in TablesOf(k - w)} : w \in 1..k}

LineBreaks == {<<LF>>, <<CR, LF>>}

RECURSIVE Doubled(_)
Doubled(cell) ==
    IF cell = <<>> THEN <<>>
    ELSE (IF Head(cell) = Quote THEN <<Quote, Quote>> ELSE <<Head(cell)>>)
         \o Doubled(Tail(cell))

NeedsQuotes(cell) == \E k \in 1..Len(cell) : cell[k] \in {Comma, Quote, LF}

WriteCell(cell) ==
    IF NeedsQuotes(cell) THEN <<Quote>> \o Doubled(cell) \o <<Quote>> ELSE cell

RECURSIVE WriteRow(_)
WriteRow(row) ==
    IF Len(row) = 1 THEN WriteCell(row[1])
    ELSE WriteCell(Head(row)) \o <<Comma>> \o WriteRow(Tail(row))

RECURSIVE WriteRows(_, _)
WriteRows(rows, lineBreak) ==
    IF rows = <<>> THEN <<>>
    ELSE IF Len(rows) = 1 THEN WriteRow(rows[1])
    ELSE WriteRow(Head(rows)) \o lineBreak \o WriteRows(Tail(rows), lineBreak)

\* the text of a table: rows joined by the line break, optionally one more
\* line break at the end
WriteTable(rows, lineBreak, trailing) ==
    WriteRows(rows, lineBreak) \o (IF trailing THEN lineBreak ELSE <<>>)

ParserInit ==
    /\ FitIdle
    /\ CriticalIdle
    /\ EncoderIdle
    /\ invocations = <<>>
    /\ HistoryIdle
    /\ CommandIdle
    /\ SolverIdle
    /\ sourceTable \in TablesOf(MaxCells)
    /\ \E lineBreak \in LineBreaks : \E trailing \in BOOLEAN :
            content = WriteTable(sourceTable, lineBreak, trailing)
    /\ parsedRows = NoResult

ParseCSV ==
    /\ parsedRows = NoResult
    /\ parsedRows' = [rows |-> parseCSV(content)]
    /\ UNCHANGED <<sourceTable, content, inputVars, fitVars, criticalVars,
                   encoderVars, invocations, historyVars, commandVars, solverVars>>

ParserNext == ParseCSV

ParserSpec == ParserInit /\ [][ParserNext]_vars





(***************************************************************************)
(* Properties of a fit                                                     *)
(***************************************************************************)
Resolved == pc = "resolved"

\* column c of the design matrix [1 | X] over the retained rows
DesignColumn(c) ==
    [k \in 1..Len(regressionData) |->
        IF c = 1 THEN One ELSE regressionData[k][c - 1]]

Dot(u, v) == SumTo([k \in 1..Len(u) |-> RMul(u[k], v[k])], Len(u))

\* width of the design matrix, intercept column included
DesignWidth == Len(regressionData[1]) + 1

Minor(M, j) ==
    [r \in 1..(Len(M) - 1) |->
        [c \in 1..(Len(M) - 1) |-> M[r + 1][IF c < j THEN c ELSE c + 1]]]

\* determinant by expansion along the first row
RECURSIVE Det(_)
Det(M) ==
    IF Len(M) = 1 THEN M[1][1]
    ELSE SumTo([j \in 1..Len(M) |->
                    LET term == RMul(M[1][j], Det(Minor(M, j)))
                    IN  IF j % 2 = 1 THEN term ELSE RNeg(term)],
               Len(M))

XtX == [i \in 1..DesignWidth |-> [j \in 1..DesignWidth |->
            Dot(DesignColumn(i), DesignColumn(j))]]

NonSingular == Det(XtX) # Zero

PredictionsFollowFit ==
    Resolved =>
        /\ Len(result.predictions) = Len(keptRows)
        /\ Len(result.predictions) = Len(regressionData)
        /\ \A i \in 1..Len(regressionData) :
            LET row == regressionData[i]
                terms == [j \in 1..Len(row) |->
                            RMul(result.slopes[result.xColumns[j]], row[j])]
            IN  result.predictions[i]
                    = RAdd(result.intercept, SumTo(terms, Len(row)))

TwoPredictorPredictions ==
    /\ Resolved
    /\ Len(regressionData) = 3
    /\ Len(regressionData[1]) = 2
    /\ regressionData[1][1] # regressionData[1][2]
    /\ \A j \in 1..2 : result.slopes[result.xColumns[j]] # Zero
    /\ result.predictions[1] # result.predictions[2]

\* the categories of source k of the expansion, and its indicator names
Cats(k) == dummyVariables[k].cats
Source(k) == dummyVariables[k].col
CategoryNames(k) == {DummyName(Source(k), Cats(k)[j]) : j \in 1..Len(Cats(k))}
Expanded == {k \in 1..Len(dummyVariables) : Len(Cats(k)) >= 2}
InHeader(k) == \E h \in 1..Len(headers) : headers[h] = Source(k)

\* number of indicator columns sources 1..k put into a data row
RECURSIVE BlockEnd(_)
BlockEnd(k) ==
    IF k = 0 THEN Len(actualCsvColumns)
    ELSE BlockEnd(k - 1)
         + (IF k \in Expanded /\ InHeader(k) THEN Len(Cats(k)) - 1 ELSE 0)

\* the source cell of retained row i for source k, as the fit reads it
SourceCell(i, k) ==
    LET h == CHOOSE h \in 1..Len(headers) : headers[h] = Source(k)
        line == table[keptRows[i] + 1]
    IN  IF h <= Len(line) THEN Trim(line[h]) ELSE Missing

\* C3: the reference category of a source with k >= 2 categories (the first
\* category of its expansion) is never a design-matrix column and never a
\* name in xColumns, slopes or coefficientStats; the source contributes
\* exactly k - 1 indicator names, and exactly k - 1 design columns.
ReferenceCategoryOmitted ==
    Resolved =>
        \A k \in Expanded :
            LET reference == DummyName(Source(k), Cats(k)[1])
            IN  /\ reference \notin NameSet(result.xColumns)
                /\ reference \notin DOMAIN result.slopes
                /\ reference \notin DOMAIN result.coefficientStats
                /\ Cardinality({i \in 1..Len(result.xColumns) :
                                    result.xColumns[i] \in CategoryNames(k)})
                        = Len(Cats(k)) - 1
                /\ InHeader(k) =>
                    /\ BlockEnd(k) - BlockEnd(k - 1) = Len(Cats(k)) - 1
                    /\ \A i \in 1..Len(regressionData) :
                        /\ Len(regressionData[i]) = BlockEnd(Len(dummyVariables))
                        /\ SourceCell(i, k) = Cats(k)[1] =>
                            \A c \in (BlockEnd(k - 1) + 1)..BlockEnd(k) :
                                regressionData[i][c] = Zero

ReferenceRowFitted ==
    /\ Resolved
    /\ \E k \in Expanded :
        /\ Len(Cats(k)) = 3
        /\ InHeader(k)
        /\ DummyName(Source(k), Cats(k)[1]) \in NameSet(xColumns)
        /\ \E i \in 1..Len(regressionData) : SourceCell(i, k) = Cats(k)[1]
        /\ \E i \in 1..Len(regressionData) : SourceCell(i, k) # Cats(k)[1]

IsHeader(name) == \E h \in 1..Len(headers) : headers[h] = name

\* number of names in xColumns once the sources 1..k have added theirs
RECURSIVE NameEnd(_)
NameEnd(k) ==
    IF k = 0 THEN Len(SelectSeq(xColumns, IsHeader))
    ELSE NameEnd(k - 1) + (IF k \in Expanded THEN Len(Cats(k)) - 1 ELSE 0)

\* the cell of retained row i under the header `name`, as the fit reads it
CellOf(line, name) ==
    LET h == CHOOSE h \in 1..Len(headers) : headers[h] = name
    IN  IF h <= Len(line) THEN Trim(line[h]) ELSE Missing

\* C4 as stated: xColumns is the raw X columns in caller order followed by
\* the indicators grouped by source in declared order, and the indicators
\* of each source are in sorted category order.
IndicatorsInSortedOrder ==
    Resolved =>
        /\ SubSeq(result.xColumns, 1, NameEnd(0)) = SelectSeq(xColumns, IsHeader)
        /\ \A k \in Expanded :
            \A j1, j2 \in 1..(Len(Cats(k)) - 1) :
                j1 < j2 =>
                    \E c1, c2 \in 1..Len(Cats(k)) :
                        /\ result.xColumns[NameEnd(k - 1) + j1]
                                = DummyName(Source(k), Cats(k)[c1])
                        /\ result.xColumns[NameEnd(k - 1) + j2]
                                = DummyName(Source(k), Cats(k)[c2])
                        /\ LexLess(Cats(k)[c1], Cats(k)[c2])

\* C4 (amended): xColumns is the requested X names found in the header, in
\* caller order, followed by the indicator names grouped by source in the
\* key order of the expansion, each source's indicators in the key order of
\* its categories (the first one, the reference, left out).  The design
\* matrix has the raw columns in the same order and then the indicator
\* columns of the sources found in the header, in that same order.
ColumnOrderFollowsExpansion ==
    Resolved =>
        /\ SubSeq(result.xColumns, 1, NameEnd(0)) = SelectSeq(xColumns, IsHeader)
        /\ Len(result.xColumns) = NameEnd(Len(dummyVariables))
        /\ \A k \in Expanded :
            \A j \in 2..Len(Cats(k)) :
                result.xColumns[NameEnd(k - 1) + j - 1]
                    = DummyName(Source(k), Cats(k)[j])
        /\ \A i \in 1..Len(regressionData) :
            LET row == regressionData[i]
                line == table[keptRows[i] + 1]
            IN  /\ Len(row) = BlockEnd(Len(dummyVariables))
                /\ \A c \in 1..NameEnd(0) :
                        row[c] = ParseFloat(CellOf(line, result.xColumns[c]))
                /\ \A k \in Expanded :
                    InHeader(k) =>
                        \A j \in 2..Len(Cats(k)) :
                            row[BlockEnd(k - 1) + j - 1] = One
                                <=> CellOf(line, Source(k)) = Cats(k)[j]

UnsortedExpansionFitted ==
    /\ Resolved
    /\ xColumns = <<DummyName(Category, CatC), Hours, DummyName(Category, CatB)>>
    /\ result.xColumns = <<Hours, DummyName(Category, CatC), DummyName(Category, CatB)>>
    /\ \E i \in 1..Len(regressionData) : regressionData[i][2] = One
    /\ \E i \in 1..Len(regressionData) : regressionData[i][3] = One

\* a data row is usable when its Y cell and the cell of every requested X
\* name that is a header column parse as numbers
Usable(i) ==
    LET line == table[i + 1]
    IN  /\ IsNumber(ParseFloat(CellOf(line, yColumn)))
        /\ \A c \in 1..Len(xColumns) :
                IsHeader(xColumns[c]) => IsNumber(ParseFloat(CellOf(line, xColumns[c])))

DataRowNumbers == [i \in 1..(Len(table) - 1) |-> i]
RowsBuilt == pc \in {"regress", "resolved"}
             \/ (pc = "rejected" /\ error = "NotEnoughValidRows")

\* C5: the retained rows are exactly the data rows whose Y cell and every
\* raw X cell parse as a number, in file order; all others are dropped, and
\* once the columns are resolved the fit fails only when fewer than two rows
\* are retained.
RetainedRowsParse ==
    RowsBuilt =>
        /\ keptRows = SelectSeq(DataRowNumbers, Usable)
        /\ Len(regressionData) = Len(keptRows)
        /\ Len(yValues) = Len(keptRows)
        /\ (pc = "rejected") <=> (Len(keptRows) < 2)

DroppedRowsFitted ==
    /\ Resolved
    /\ Len(table) = 4
    /\ keptRows = <<1, 3>>
    /\ IsNumber(ParseFloat(CellOf(table[3], yColumn)))
    /\ ~Usable(2)

AllCategoryNames == UNION {CategoryNames(k) : k \in 1..Len(dummyVariables)}

\* C7 as stated: a fit is returned only when the Y column, every requested
\* X name (a header column or an indicator of the expansion) and every
\* categorical source is present; otherwise the fit fails with
\* ColumnNotFound.
FitNeedsEveryColumn ==
    Resolved =>
        /\ IsHeader(yColumn)
        /\ \A c \in 1..Len(xColumns) :
                IsHeader(xColumns[c]) \/ xColumns[c] \in AllCategoryNames
        /\ \A k \in 1..Len(dummyVariables) : InHeader(k)

UsableRows == {i \in 1..(Len(table) - 1) : Usable(i)}

EntryHasNaN(e) ==
    \/ IsNaN(e.coefficient)
    \/ SIsNaN(e.standardError)
    \/ SIsNaN(e.tStat)
    \/ TIsNaN(e.pValue)
    \/ SIsNaN(e.ci95Lower)
    \/ SIsNaN(e.ci95Upper)

\* C9 as stated: no numeric field of a returned result is NaN: slopes,
\* intercept, R-squared, adjusted R-squared, multiple R, standard error,
\* predictions, and every coefficient's statistics.
NoNaNInResult ==
    Resolved =>
        /\ ~IsNaN(result.intercept)
        /\ \A name \in DOMAIN result.slopes :
                result.slopes[name] = Undefined \/ ~IsNaN(result.slopes[name])
        /\ ~IsNaN(result.rSquared)
        /\ ~IsNaN(result.adjustedRSquared)
        /\ ~SIsNaN(result.multipleR)
        /\ ~SIsNaN(result.standardError)
        /\ \A i \in 1..Len(result.predictions) : ~IsNaN(result.predictions[i])
        /\ \A name \in DOMAIN result.coefficientStats :
                ~EntryHasNaN(result.coefficientStats[name])

\* C10 as stated: a returned result has a coefficientStats entry for
\* Intercept and for every name in result.xColumns.
CoefficientStatsComplete ==
    Resolved =>
        DOMAIN result.coefficientStats = {Intercept} \cup NameSet(result.xColumns)

\* the sums of squares over the retained rows and the returned predictions
RetainedMean ==
    RDiv(SumTo(yValues, Len(yValues)), Int2Rat(Len(yValues)))
SST ==
    LET mean == RetainedMean
        dev == [i \in 1..Len(yValues) |-> RSub(yValues[i], mean)]
    IN  Dot(dev, dev)
SSR ==
    LET res == [i \in 1..Len(yValues) |-> RSub(yValues[i], result.predictions[i])]
    IN  Dot(res, res)

RLeq(a, b) == a = b \/ RLt(a, b)

\* C11: rSquared is 0 when SST = 0 (all retained Y values identical) and
\* 1 - SSR/SST otherwise, with SSR and SST taken over the retained rows and
\* the returned predictions.
RSquaredFromSums ==
    Resolved =>
        /\ (SST = Zero) <=> (\A i \in 1..Len(yValues) : yValues[i] = yValues[1])
        /\ result.rSquared
                = IF SST = Zero THEN Zero ELSE RSub(One, RDiv(SSR, SST))

PartlyExplainedFit ==
    /\ Resolved
    /\ SST # Zero
    /\ SSR # Zero
    /\ RLt(Zero, result.rSquared)
    /\ RLt(result.rSquared, One)

\* C12: with n retained rows and p predictors, adjustedRSquared equals
\* rSquared when n <= p + 1 and 1 - (1 - rSquared)(n - 1)/(n - p - 1) when
\* n > p + 1, and is then at most rSquared.
AdjustedRSquaredFormula ==
    Resolved =>
        LET n == Len(yValues)
            p == Len(result.xColumns)
        IN  IF n <= p + 1
            THEN result.adjustedRSquared = result.rSquared
            ELSE /\ result.adjustedRSquared
                        = RSub(One, RDiv(RMul(RSub(One, result.rSquared), Int2Rat(n - 1)),
                                         Int2Rat(n - p - 1)))
                 /\ RLeq(result.adjustedRSquared, result.rSquared)

AdjustedBelowRSquared ==
    /\ Resolved
    /\ Len(yValues) > Len(result.xColumns) + 1
    /\ Len(result.xColumns) >= 1
    /\ RLt(result.adjustedRSquared, result.rSquared)
    /\ RLt(Zero, result.rSquared)

\* degrees of freedom of the fit, n - p - 1
ResidualDf == Len(yValues) - Len(result.xColumns) - 1

\* a p-value that is a plain number within [0, 1]
PlainProbability(pv) ==
    /\ pv.c1 = Zero
    /\ IsNumber(pv.c0)
    /\ RLeq(Zero, pv.c0)
    /\ RLeq(pv.c0, One)

\* a p-value that is min(I, 1) for the value I that
\* regularizedIncompleteBeta(df/2, 1/2, df/(df + t^2)) returns from its
\* continued fraction, for 0 < df/(df + t^2) < 1
CappedBeta(pv, df) ==
    /\ pv.c0 = Zero
    /\ pv.c1 = One
    /\ pv.a = Rat(df, 2)
    /\ RLt(Zero, pv.x)
    /\ RLt(pv.x, One)

EntryConsistent(e, tCritical) ==
    IF e.standardError.b = Zero
    THEN /\ e.standardError = SNum(Zero)
         /\ e.ci95Upper = SNum(e.coefficient)
         /\ e.ci95Lower = SNum(e.coefficient)
         /\ e.tStat = SNum(Zero)
    ELSE /\ e.ci95Upper.a = e.coefficient
         /\ e.ci95Lower.a = e.coefficient
         /\ e.ci95Upper.r = e.standardError.r
         /\ e.ci95Lower.r = e.standardError.r
         /\ e.ci95Upper.b = RMul(tCritical, e.standardError.b)
         /\ e.ci95Lower.b = RNeg(RMul(tCritical, e.standardError.b))
         /\ IF e.coefficient = Zero THEN e.tStat = SNum(Zero)
            ELSE /\ e.tStat.a = Zero
                 /\ e.tStat.r = e.standardError.r
                 /\ RMul(RMul(e.tStat.b, e.standardError.b), e.standardError.r)
                        = e.coefficient

\* C14 as stated: for the intercept and every slope in coefficientStats,
\* ci95Upper - coefficient = coefficient - ci95Lower
\* = t_critical(n - p - 1) * standardError, and tStat is
\* coefficient / standardError (0 when standardError is 0).  An equation
\* between numbers does not hold of NaN.
CoefficientIntervalsSymmetric ==
    Resolved =>
        \A name \in DOMAIN result.coefficientStats :
            LET e == result.coefficientStats[name]
            IN  /\ ~SIsNaN(e.standardError)
                /\ EntryConsistent(e, getCriticalTValue(ResidualDf))

\* the same relations hold of every entry whose standard error is a number
IntervalsSymmetricWhenErrorIsNumber ==
    Resolved =>
        \A name \in DOMAIN result.coefficientStats :
            LET e == result.coefficientStats[name]
            IN  ~SIsNaN(e.standardError) =>
                    EntryConsistent(e, getCriticalTValue(ResidualDf))

(***************************************************************************)
(* Properties of getCriticalTValue                                         *)
(***************************************************************************)
\* the canonical degrees of freedom next to df in the table
Canonical == {1, 2, 3, 4, 5, 6, 7, 8, 9, 10, 12, 15, 20, 25, 30, 40, 60, 100, 1000}
EntryBelow(d) == CHOOSE c \in Canonical : c <= d /\ \A e \in Canonical : e <= d => e <= c
EntryAbove(d) == CHOOSE c \in Canonical : c >= d /\ \A e \in Canonical : e >= d => e >= c
Thousandths(k) == Rat(k, 1000)

\* C15: getCriticalTValue(df) is the table value at a canonical df, the
\* linear interpolation between the two nearest table entries at any other
\* df within [1, 1000], the df = 1 entry 12.706 for df < 1 (df <= 0
\* included) and the df = 1000 entry 1.962 for df > 1000; it never
\* increases with df.
CriticalValueFromTable ==
    criticalT # NoResult =>
        /\ DOMAIN tCriticalTable = Canonical
        /\ criticalDf \in Canonical => criticalT = tCriticalTable[criticalDf]
        /\ criticalDf < 1 => criticalT = Thousandths(12706)
        /\ criticalDf > 1000 => criticalT = Thousandths(1962)
        /\ criticalDf = 1 => criticalT = Thousandths(12706)
        /\ criticalDf = 1000 => criticalT = Thousandths(1962)
        /\ (criticalDf \notin Canonical /\ criticalDf >= 1 /\ criticalDf <= 1000) =>
            LET lower == EntryBelow(criticalDf)
                upper == EntryAbove(criticalDf)
                rise == RSub(tCriticalTable[upper], tCriticalTable[lower])
            IN  criticalT = RAdd(tCriticalTable[lower],
                                 RDiv(RMul(Int2Rat(criticalDf - lower), rise),
                                      Int2Rat(upper - lower)))
        /\ RLeq(criticalT, getCriticalTValue(criticalDf - 1))

InterpolatedCriticalValue ==
    /\ criticalDf = 50
    /\ criticalT = Rat(20105, 10000)

(***************************************************************************)
(* Properties of createDummyVariables                                      *)
(***************************************************************************)
Encoded == "resolved" \in DOMAIN dummies
SourceIndex == IndexOf(TrimAll(csvRows[1]), categoricalColumn)
SourceCellOf(r) == CellAt(csvRows[r + 1], SourceIndex)
\* the distinct non-empty values of the source column
SourceValues == {SourceCellOf(r) : r \in 1..(Len(csvRows) - 1)} \ {Missing, <<>>}
FirstSorted == CHOOSE c \in SourceValues : \A d \in SourceValues \ {c} : LexLess(c, d)
VectorNames == {dummies.resolved[k].name : k \in 1..Len(dummies.resolved)}
ReferenceGiven == baseCaseCategory.kind = "string" /\ baseCaseCategory.s # <<>>

\* C16: without an explicit reference category the first category in
\* sorted order is the reference: it gets no indicator column, so k distinct
\* non-empty values give exactly k - 1 indicator columns.
FirstCategoryIsReference ==
    (Encoded /\ ~ReferenceGiven /\ SourceValues # {}) =>
        /\ DummyName(categoricalColumn, FirstSorted) \notin VectorNames
        /\ Len(dummies.resolved) = Cardinality(SourceValues) - 1

\* C17: for a table with at least one data row and an existing source
\* column S the result holds, for each category c of the distinct non-empty
\* S values other than the reference, a vector named S_c with one entry per
\* data row, in row order, 1 where the row's S cell equals c and 0
\* elsewhere; a reference category given explicitly gets no vector.
IndicatorVectorsFollowCells ==
    (dummies # NoResult /\ Len(csvRows) >= 2 /\ SourceIndex # 0) =>
        /\ Encoded
        /\ \A c \in SourceValues :
            \/ c = (IF ReferenceGiven THEN baseCaseCategory.s ELSE FirstSorted)
            \/ \E k \in 1..Len(dummies.resolved) :
                /\ dummies.resolved[k].name = DummyName(categoricalColumn, c)
                /\ \A j \in 1..Len(dummies.resolved) :
                    dummies.resolved[j].name = dummies.resolved[k].name => j = k
                /\ Len(dummies.resolved[k].values) = Len(csvRows) - 1
                /\ \A r \in 1..(Len(csvRows) - 1) :
                    dummies.resolved[k].values[r] =
                        (IF SourceCellOf(r) = c THEN 1 ELSE 0)
        /\ ReferenceGiven =>
            DummyName(categoricalColumn, baseCaseCategory.s) \notin VectorNames
        /\ \A k \in 1..Len(dummies.resolved) :
            \E c \in SourceValues :
                dummies.resolved[k].name = DummyName(categoricalColumn, c)

EncodedAroundReference ==
    /\ Encoded
    /\ baseCaseCategory = Given(CatB)
    /\ categoricalColumn = Category
    /\ Len(csvRows) = 4
    /\ SourceValues = {CatA, CatB, CatC}
    /\ Len(dummies.resolved) = 2

(***************************************************************************)
(* Properties of calls in flight together                                  *)
(***************************************************************************)
SameInputs(j, k) ==
    /\ invocations[j].t = invocations[k].t
    /\ invocations[j].x = invocations[k].x
    /\ invocations[j].y = invocations[k].y
    /\ invocations[j].dv = invocations[k].dv
Settled(k) == invocations[k].pc \in {"resolved", "rejected"}

HistoryCappedNewestFirst ==
    [][ /\ Len(history') <= 50
        /\ \A i \in 1..(Len(history') - 1) : history'[i].id > history'[i + 1].id
        /\ AddEntry =>
            /\ history'[1] = Entry(entriesAdded + 1)
            /\ Len(history) < 50 => Tail(history') = history
            /\ Len(history) = 50 =>
                /\ Len(history') = 50
                /\ \A i \in 1..49 : history'[i + 1] = history[i]
        /\ GetLastEntry =>
            lastEntry' = IF history = <<>> THEN UndefinedEntry
                         ELSE Entry(entriesAdded)
      ]_vars

OldestEvicted ==
    /\ entriesAdded = 52
    /\ Len(history) = 50
    /\ history[50] = Entry(3)
    /\ lastEntry = Entry(52)

(***************************************************************************)
(* Properties of the command flow                                          *)
(***************************************************************************)
ShownXColumns == arrays[modelConfigProvider.xColumns]
SelectedXColumns == arrays[provider.selectedXColumns]

\* C20: after every command the X columns of ModelConfigProvider are the
\* selected X columns of LinearRegressionProvider, the same names in the
\* same order, and its Y column is the selected Y column.
ConfigShowsSelection ==
    /\ ShownXColumns = SelectedXColumns
    /\ modelConfigProvider.yColumn = provider.selectedYColumn

\* the same for the runs in which no dummy column is removed and no
\* command runs while a regression is awaited
ConfigShowsSelectionOtherwise ==
    [][ (/\ ShownXColumns = SelectedXColumns
         /\ modelConfigProvider.yColumn = provider.selectedYColumn
         /\ running = NoResult
         /\ ~(\E columnName \in DummyItems : RemoveDummyColumn(columnName)))
        => /\ ShownXColumns' = SelectedXColumns'
           /\ modelConfigProvider'.yColumn = provider'.selectedYColumn ]_vars

(***************************************************************************)
(* Properties of the predictor bookkeeping of a fit                        *)
(***************************************************************************)
\* C24: a fit uses only the predictors that were requested: every name in
\* result.xColumns is a name of the caller's X column list, so an indicator
\* of a supplied expansion enters the design only if its name was requested.
OnlyRequestedPredictors ==
    Resolved =>
        \A i \in 1..Len(result.xColumns) : Includes(xColumns, result.xColumns[i])

\* C25: for every returned result the length of result.xColumns is the
\* number of columns of every design-matrix row, and result.slopes holds a
\* number for every name in result.xColumns, also when an expansion names a
\* source column that the header lacks.
PredictorBookkeepingConsistent ==
    Resolved =>
        /\ \A r \in 1..Len(regressionData) :
                Len(regressionData[r]) = Len(result.xColumns)
        /\ \A i \in 1..Len(result.xColumns) :
                /\ result.xColumns[i] \in DOMAIN result.slopes
                /\ IsNumber(result.slopes[result.xColumns[i]])

(***************************************************************************)
(* Properties of the solver and of the inverter                            *)
(***************************************************************************)
Solved == solution # NoResult

\* the number held as the multiple a is below 1e-10 in magnitude
BelowThreshold(a) ==
    \/ a = Zero
    \/ unit >= 10 /\ RLt(RAbs(a), Int2Rat(Pow10(unit - 10)))

\* row i of the eliminated system, from the diagonal on, applied to the
\* returned unknowns
EliminatedRow(i) ==
    SumTo([j \in 1..(Len(matrixA) - i + 1) |->
                RMul(matrixA[i][i + j - 1], solution.x[i + j - 1])],
          Len(matrixA) - i + 1)

\* C26 as stated: gaussianElimination returns a number for every unknown;
\* an unknown whose pivot is zero after forward elimination is exactly 0 and
\* every other unknown satisfies its row of the eliminated system, the
\* unknowns after it being what was returned for them.
ZeroPivotsResolveToZero ==
    Solved =>
        \A i \in 1..Len(solution.x) :
            /\ IsNumber(solution.x[i])
            /\ IF matrixA[i][i] = Zero
               THEN solution.x[i] = Zero
               ELSE EliminatedRow(i) = vectorB[i]

\* C26: gaussianElimination returns a number for every unknown; an unknown
\* whose pivot after forward elimination is below 1e-10 in magnitude (zero
\* included) is exactly 0 and every other unknown satisfies its row of the
\* eliminated system, the unknowns after it being what was returned for them.
TinyPivotsResolveToZero ==
    Solved =>
        \A i \in 1..Len(solution.x) :
            /\ IsNumber(solution.x[i])
            /\ IF BelowThreshold(matrixA[i][i])
               THEN solution.x[i] = Zero
               ELSE EliminatedRow(i) = vectorB[i]

\* a singular 3x3 system was solved: one unknown fixed at 0, another not 0
SingularSystemSolved ==
    /\ Solved
    /\ unit = 0
    /\ Len(solution.x) = 3
    /\ \E i \in 1..3 : matrixA[i][i] = Zero /\ solution.x[i] = Zero
    /\ \E j \in 1..3 : matrixA[j][j] # Zero /\ solution.x[j] # Zero

Inverted == inverse # NoResult

Delta(r, c) == IF r = c THEN One ELSE Zero

\* row k of the returned matrix holds plain multiples of 10^unit
Whole(inv, k) == inv.exp[k] = unit

\* the part of (A B)[r][c] that is a plain number and the part that is a
\* multiple of 10^-unit
ProductAB(A, inv, r, c, whole) ==
    SumTo([k \in 1..Len(A) |->
                IF Whole(inv, k) = whole THEN RMul(A[r][k], inv.B[k][c])
                ELSE Zero],
          Len(A))

ProductBA(A, inv, r, c) ==
    SumTo([k \in 1..Len(A) |-> RMul(inv.B[r][k], A[k][c])], Len(A))

\* A B = B A = I for the argument A and the returned B
TwoSidedInverse(A, inv) ==
    \A r \in 1..Len(A) : \A c \in 1..Len(A) :
        /\ ProductAB(A, inv, r, c, TRUE) = Delta(r, c)
        /\ unit = 0 \/ ProductAB(A, inv, r, c, FALSE) = Zero
        /\ Whole(inv, r)
        /\ ProductBA(A, inv, r, c) = Delta(r, c)

\* C27 as stated: invertMatrix(A) of a nonsingular A returns B with
\* A B = B A = I and leaves A as it was.
InverseOfNonsingular ==
    [][inverse' # inverse =>
            /\ matrixA' = matrixA
            /\ Det(matrixA) # Zero => TwoSidedInverse(matrixA, inverse')]_vars

\* C27: invertMatrix(A) leaves A as it was, and when A is nonsingular and
\* no pivot of the elimination is below 1e-10 in magnitude the returned B
\* has A B = B A = I.
InverseOfWellPivoted ==
    [][inverse' # inverse =>
            /\ matrixA' = matrixA
            /\ (Det(matrixA) # Zero /\ \A k \in 1..Len(matrixA) : Whole(inverse', k))
                    => TwoSidedInverse(matrixA, inverse')]_vars

\* a nonsingular 3x3 matrix whose first pivot needed a row swap was inverted
SwappedMatrixInverted ==
    /\ Inverted
    /\ ~Solved
    /\ unit = 0
    /\ Len(matrixA) = 3
    /\ matrixA[1][1] = Zero
    /\ Det(matrixA) # Zero
    /\ TwoSidedInverse(matrixA, inverse)

(***************************************************************************)
(* Properties of parseCSV                                                  *)
(***************************************************************************)
Parsed == parsedRows # NoResult

\* C28: parsing the text written from a table (cells with a comma, a quote
\* or a newline wrapped in quotes with every quote doubled, rows joined by
\* \n or \r\n, with or without a line break at the end) returns that table.
WrittenTableParsedBack ==
    Parsed => parsedRows.rows = sourceTable

\* a two-row text with \r\n line breaks, a quoted newline and a doubled
\* quote was parsed
QuotedTextParsed ==
    /\ Parsed
    /\ Len(sourceTable) = 2
    /\ \E k \in 1..Len(content) : content[k] = CR
    /\ \E r \in 1..2 : \E c \in 1..Len(sourceTable[r]) : sourceTable[r][c] = <<LF>>
    /\ \E r \in 1..2 : \E c \in 1..Len(sourceTable[r]) : sourceTable[r][c] = <<Quote>>
    /\ parsedRows.rows = sourceTable

(***************************************************************************)
(* Properties of the runs and of the history of the command flow           *)
(***************************************************************************)
\* the panel shows the predictors of the fit f with their slopes, and its
\* intercept, R-squared and adjusted R-squared
PanelShows(shown, f) ==
    /\ [k \in 1..Len(shown.coefficients) |-> shown.coefficients[k].name] = f.xColumns
    /\ \A k \in 1..Len(shown.coefficients) :
            shown.coefficients[k].coef = f.slopes[shown.coefficients[k].name]
    /\ shown.intercept = f.intercept
    /\ shown.rSquared = f.rSquared
    /\ shown.adjustedRSquared = f.adjustedRSquared

\* C21: restoreModel(id) of an entry in the history shows the result of the
\* run that recorded it: the predictors of that result's xColumns, each with
\* its slope, and its intercept, R-squared and adjusted R-squared.
RestoreReplaysFit ==
    [][\A entryId \in 1..entriesAdded :
            (getEntryById(history, entryId) # <<>> /\ RestoreModel(entryId))
                => PanelShows(panel', fits[entryId])]_vars

\* C22: no step changes the xColumns, the slopes or the predictions of an
\* entry that is in the history.
HistoryEntriesNeverChange ==
    [][\A k \in 1..Len(history) : \A j \in 1..Len(history') :
            history'[j].id = history[k].id
                => /\ arrays'[history'[j].xColumns] = arrays[history[k].xColumns]
                   /\ history'[j].slopes = history[k].slopes
                   /\ history'[j].predictions = history[k].predictions]_vars

\* the vector createDummyVariables made under the name, on the retained rows
EncoderVectorFitted(f, j) ==
    \E d \in 1..Len(f.dummyVariablesData) :
        LET made == createDummyVariables(CommandTable, f.dummyVariablesData[d].col,
                                         GivenTrue).resolved
        IN  \E v \in 1..Len(made) :
                /\ made[v].name = f.xColumns[j]
                /\ \A r \in 1..Len(f.keptRows) :
                        f.regressionData[r][j] = Int2Rat(made[v].values[f.keptRows[r]])

\* C23: in a run after Create Dummy Variables every column of the fit that
\* is not a column of the file carries a name the encoder created, and its
\* values on the retained rows are the encoder's vector of that name.
IndicatorsAreTheEncoders ==
    \A k \in 1..Len(fits) :
        \A j \in 1..Len(fits[k].xColumns) :
            ~Includes(CommandColumns, fits[k].xColumns[j])
                => EncoderVectorFitted(fits[k], j)

\* C29: right after selectCsvFile a run would pass no expansion to the fit.
SelectingFileDropsExpansions ==
    [][SelectCsvFile
            => DummyVariablesData(provider'.columns, provider'.dummyVariables) = <<>>]_vars

\* C30: the marked base case is null or one of the displayed dummy columns,
\* and no fit of a run made while a base case is marked has that name among
\* its xColumns.
BaseCaseIsReference ==
    [][/\ \/ modelConfigProvider'.baseCaseDummy = Null
          \/ Includes(modelConfigProvider'.dummyColumns,
                      modelConfigProvider'.baseCaseDummy)
       /\ (fits' # fits /\ modelConfigProvider.baseCaseDummy # Null)
            => ~Includes(fits'[Len(fits')].xColumns,
                         modelConfigProvider.baseCaseDummy)]_vars

====
